---- MODULE Spec2Model ----
(***************************************************************************)
(* A model of the asset-acquisition pipeline of the cdn command-line tool: *)
(*   - the concurrency limiter        (src/src/limiter.ts)                 *)
(*   - the retrying fetcher           (src/src/libraryUtil.ts)             *)
(*   - the install batch orchestrator (src/unnamed/part_001)               *)
(* The specifications of the module:                                       *)
(*   Spec / LiveSpec          the limiter driven by arbitrary tasks        *)
(*   SpecDownload / LiveDownload   one call of downloadWithRetry           *)
(*   SpecInstall              the install batch on top of both             *)
(*   SpecProgress             one ProgressBar (src/src/logging.ts)         *)
(*   SpecCreate               createLimiter from its argument check on     *)
(*   SpecScore                one call of getFileScore                     *)
(*   SpecUninstall            one run of the uninstall action              *)
(*   SpecInsert               repeated runs of the insert action           *)
(*   SpecOption               install from its --concurrency option on     *)
(*   SpecEmbed                embed and then insert on one library         *)
(***************************************************************************)
EXTENDS Integers, Sequences, FiniteSets, TLC

VARIABLES
    mode,          \* which component drives the run: "limiter", "download", "install", ...
    \* ---- limiter.ts: the closure state of one createLimiter(concurrency)
    concurrency,   \* the argument of createLimiter
    activeCount,   \* let activeCount
    queue,         \* const queue (task ids whose taskWrapper is waiting)
    \* ---- observation of the tasks handed to limit()
    submitted,     \* number of limit() calls made so far; ids are 1..submitted
    kind,          \* per task: "async" or "syncThrow" (taskFn throws before returning a promise)
    taskState,     \* per task: "unsubmitted", "queued", "running", "settled"
    outer,         \* per task: the promise returned by limit(): "pending", "resolved", "rejected"
    startOrder,    \* ids in the order in which taskWrapper incremented activeCount
    everQueued,    \* ids that were pushed on the queue at some time
    taskFailed,    \* ids whose task function threw or returned a rejected promise
    \* ---- libraryUtil.ts: one call of downloadWithRetry
    call,          \* record of the locals and the observable effects of the call
    \* ---- part_001: the install action
    verbose,       \* options.verbose
    selectOnly,    \* options.selectOnly: whether it was given, and its comma-separated names
    catalog,       \* the URLs listed on the library page of cdnjs, in page order
    installPc,     \* position of the install action
    catalogError,  \* what the GET of the library page threw, if it threw
    rootMkdir,     \* how fs.mkdirSync(libraryBaseDir) ended, once it was called
    disk,          \* cdn_modules and the library directory: before the action, and now
    urls,          \* prioritizedUrls
    log,           \* the lines written by logError, logWarning and logSuccess
    exitCode,      \* process.exitCode (0 while it is not set)
    taskPc,        \* per task: position inside the async task function
    downloads,     \* per task: the record of its downloadWithRetry call
    fileOutcomes,  \* const fileOutcomes
    progressCounter,
    totalBytesDownloaded,
    downloadedCount,
    failedCount,
    \* ---- logging.ts: one ProgressBar and the stream it writes to
    bar,           \* the fields of the ProgressBar
    stream,        \* what was written to the stream, in order
    barCalls,      \* the methods called so far, in order
    barBefore,     \* bar as it was before the last call
    streamBefore,  \* stream as it was before the last call
    \* ---- limiter.ts: one call of createLimiter
    ctor,          \* its argument and how it ended
    \* ---- libraryUtil.ts: one call of getFileScore
    scoring,       \* its arguments and its result
    \* ---- part_001: one run of the uninstall action, and the file system it sees
    uninst,
    \* ---- part_001: runs of the insert action on one HTML file
    ins,
    \* ---- part_001: one run of the embed action
    emb

limiterVars == <<concurrency, activeCount, queue, submitted, kind, taskState, outer,
                 startOrder, everQueued, taskFailed>>
downloadVars == <<call>>
installVars == <<verbose, selectOnly, catalog, installPc, catalogError, rootMkdir, disk, urls,
                 log, exitCode, taskPc, downloads, fileOutcomes, progressCounter,
                 totalBytesDownloaded, downloadedCount, failedCount>>
progressVars == <<bar, stream, barCalls, barBefore, streamBefore>>
toolVars == <<progressVars, ctor, scoring, uninst, ins, emb>>
\* toolVars without barCalls, which the install batch appends to
otherTools == <<bar, stream, barBefore, streamBefore, ctor, scoring, uninst, ins, emb>>
vars == <<mode, limiterVars, downloadVars, installVars, toolVars>>

-----------------------------------------------------------------------------
(* Bounds of the model *)

MaxTasks == 4
MaxConcurrency == 2

Tasks == 1..MaxTasks

Range(s) == {s[k] : k \in 1..Len(s)}

-----------------------------------------------------------------------------
(* limiter.ts *)

\* The closure state of the limiter together with the observation of its tasks,
\* as one value, so that the synchronous call chains can be computed.
LimiterState ==
    [activeCount |-> activeCount, queue |-> queue, kind |-> kind,
     taskState |-> taskState, outer |-> outer, startOrder |-> startOrder,
     everQueued |-> everQueued, taskFailed |-> taskFailed]

\* faulty variant: the slot test admits one task too many
hasFreeSlotOffByOne(L) == L.activeCount <= concurrency

\* faulty variant: the last slot is never given out
hasFreeSlotButLast(L) == L.activeCount + 1 < concurrency

\* `activeCount < concurrency`, the test of runNext (line 27) and of limit (line 50)
hasFreeSlot(L) == L.activeCount < concurrency

\* faulty variant: the queue is served from its newest end
popNewest(q) == <<q[Len(q)], SubSeq(q, 1, Len(q) - 1)>>

\* queue.shift(): the removed head and the remaining queue
shift(q) == <<Head(q), Tail(q)>>

\* faulty variant: a rejection also rejects and drops every queued task
settleOuterCancelQueue(L, i, r) ==
    IF r = "rejected"
    THEN [L EXCEPT !.outer = [j \in Tasks |->
                                 IF j = i \/ j \in Range(L.queue) THEN "rejected" ELSE @[j]],
                   !.taskState = [j \in Tasks |->
                                 IF j = i \/ j \in Range(L.queue) THEN "settled" ELSE @[j]],
                   !.queue = <<>>]
    ELSE [L EXCEPT !.outer[i] = r, !.taskState[i] = "settled"]

\* resolve(result) / reject(error) of taskWrapper: settles the promise of this
\* limit() call and of no other
settleOuter(L, i, r) ==
    [L EXCEPT !.outer[i] = r, !.taskState[i] = "settled"]

RECURSIVE taskWrapper(_, _)
RECURSIVE runNext(_)

\* faulty variant: the finally block forgets to dispatch
finallyNoDispatch(L) == [L EXCEPT !.activeCount = @ - 1]

\* the finally block of taskWrapper: activeCount--; runNext()
finally(L) == runNext([L EXCEPT !.activeCount = @ - 1])

\* taskWrapper(): activeCount++, then taskFn() is called. A task function that
\* throws before returning a promise is caught at once: reject, then finally,
\* all in the same synchronous call. Otherwise the wrapper suspends at the await.
taskWrapper(L, i) ==
    LET L1 == [L EXCEPT !.activeCount = @ + 1,
                        !.startOrder = Append(@, i),
                        !.taskState[i] = "running"]
    IN IF L1.kind[i] = "syncThrow"
       THEN finally(settleOuter([L1 EXCEPT !.taskFailed = @ \cup {i}], i, "rejected"))
       ELSE L1

runNext(L) ==
    IF Len(L.queue) > 0 /\ hasFreeSlot(L)
    THEN LET s == shift(L.queue)
         IN taskWrapper([L EXCEPT !.queue = s[2]], s[1])
    ELSE L

\* limit(taskFn): start the wrapper now or push it on the queue
limitCall(L, i) ==
    IF hasFreeSlot(L)
    THEN taskWrapper(L, i)
    ELSE [L EXCEPT !.queue = Append(@, i),
                   !.taskState[i] = "queued",
                   !.everQueued = @ \cup {i}]

\* faulty variant: the slot is given back in the try block, not after a rejection
taskWrapperResumeLeak(L, i, r) ==
    IF r = "rejected"
    THEN settleOuter([L EXCEPT !.taskFailed = @ \cup {i}], i, r)
    ELSE finally(settleOuter(L, i, r))

\* the continuation of taskWrapper after `await taskFn()` settled with r
taskWrapperResume(L, i, r) ==
    finally(settleOuter(
        [L EXCEPT !.taskFailed = IF r = "rejected" THEN @ \cup {i} ELSE @], i, r))

SetLimiter(L) ==
    /\ activeCount' = L.activeCount
    /\ queue' = L.queue
    /\ kind' = L.kind
    /\ taskState' = L.taskState
    /\ outer' = L.outer
    /\ startOrder' = L.startOrder
    /\ everQueued' = L.everQueued
    /\ taskFailed' = L.taskFailed

\* createLimiter(concurrency) returned: nothing active, nothing queued
LimiterInit ==
    /\ activeCount = 0
    /\ queue = <<>>
    /\ submitted = 0
    /\ kind = [i \in Tasks |-> "async"]
    /\ taskState = [i \in Tasks |-> "unsubmitted"]
    /\ outer = [i \in Tasks |-> "pending"]
    /\ startOrder = <<>>
    /\ everQueued = {}
    /\ taskFailed = {}

-----------------------------------------------------------------------------
(* libraryUtil.ts: downloadWithRetry *)

MaxRetriesBound == 2
MaxPayload == 2

DefaultMaxRetries == 2
DefaultInitialDelay == 1500
MaxDelay == 10000

InitialDelays == {0, DefaultInitialDelay, 6000, MaxDelay, 12000}

NoCode == "undefined"
NoStatus == 0
TransientCodes == {"ETIMEDOUT", "ECONNABORTED", "ECONNRESET", "EPIPE"}

Err(axios, code, status, message, origin) ==
    [isAxiosError |-> axios, code |-> code, status |-> status,
     message |-> message, origin |-> origin]

\* what `await axios.get(...)` can throw
GetErrors ==
    {Err(TRUE, c, NoStatus, "other", "get") :
        c \in TransientCodes \cup {"ERR_INVALID_URL", "ENOTFOUND"}}
    \cup {Err(TRUE, "ERR_BAD_RESPONSE", st, "other", "get") : st \in {500, 503}}
    \cup {Err(TRUE, NoCode, 502, "other", "get")}
    \cup {Err(TRUE, "ERR_BAD_REQUEST", st, "other", "get") : st \in {403, 404}}
    \cup {Err(FALSE, c, NoStatus, "other", "get") : c \in {"EPIPE", "ERR_INVALID_URL"}}

\* what `await fs.writeFile(...)` can throw
WriteErrors ==
    {Err(FALSE, c, NoStatus, "other", "write") : c \in {"EACCES", "ENOSPC", "ETIMEDOUT"}}

\* new Error(`Received empty response from ${url}`), line 285
EmptyResponseError == Err(FALSE, NoCode, NoStatus, "Received empty response", "empty")

\* the responses a completed GET can carry: linkResponse.data and its byteLength
Responses ==
    {[hasData |-> FALSE, byteLength |-> 0]}
    \cup {[hasData |-> TRUE, byteLength |-> n] : n \in 0..MaxPayload}

\* faulty variant: the classification of the earlier revision (no EPIPE for HTTP-client
\* errors, no empty-response branch)
isRetryableEarlier(err) ==
    IF err.isAxiosError
    THEN \/ err.code \in {"ETIMEDOUT", "ECONNABORTED", "ECONNRESET"}
         \/ (err.status # NoStatus /\ err.status >= 500)
    ELSE IF err.code # NoCode
    THEN err.code \in {"ETIMEDOUT", "ECONNRESET", "EPIPE"}
    ELSE FALSE

isRetryable(err) ==
    IF err.isAxiosError
    THEN \/ err.code = "ETIMEDOUT"
         \/ err.code = "ECONNABORTED"
         \/ err.code = "ECONNRESET"
         \/ err.code = "EPIPE"
         \/ (err.status # NoStatus /\ err.status >= 500)
    ELSE IF err.code # NoCode
    THEN err.code = "ETIMEDOUT" \/ err.code = "ECONNRESET"
         \/ err.code = "EPIPE" \/ err.code = "ECONNABORTED"
    ELSE IF err.message = "Received empty response"
    THEN TRUE
    ELSE FALSE

\* faulty variant: one retry too few
shouldRetryOneLess(err, attempts, maxRetries) ==
    isRetryable(err) /\ attempts < maxRetries

\* faulty variant: a retryable error is retried whatever the number of attempts
shouldRetryAlways(err, attempts, maxRetries) == isRetryable(err)

\* faulty variant: every failure is retried while attempts remain
shouldRetryAnyError(err, attempts, maxRetries) ==
    attempts <= maxRetries

\* `isRetryable(error) && attempts <= maxRetries`, line 318
shouldRetry(err, attempts, maxRetries) ==
    isRetryable(err) /\ attempts <= maxRetries

\* faulty variant: an empty body is accepted
isEmptyResponseNever(resp) == FALSE

\* `!linkResponse.data || linkResponse.data.byteLength === 0`, line 284
isEmptyResponse(resp) == ~resp.hasData \/ resp.byteLength = 0

Min(a, b) == IF a < b THEN a ELSE b

\* faulty variant: the delay is never doubled
nextDelayConstant(delay) == delay

\* `delay = Math.min(delay * 2, 10000)`, line 329
nextDelay(delay) == Min(delay * 2, MaxDelay)

\* the head of `while (attempts <= maxRetries)`: issue the next GET, or fall
\* out of the loop to the final throw (line 358)
loopHead(c) ==
    IF c.attempts <= c.maxRetries
    THEN [c EXCEPT !.pc = "get", !.gets = @ + 1]
    ELSE [c EXCEPT !.pc = "failed"]

\* entry of downloadWithRetry: attempts = 0, delay = initialDelay, first iteration
downloadStart(maxRetries, initialDelay) ==
    loopHead([pc |-> "entry", maxRetries |-> maxRetries, initialDelay |-> initialDelay,
              attempts |-> 0, delay |-> initialDelay,
              gets |-> 0,            \* GETs issued
              responses |-> <<>>,    \* byteLength of every response received
              writeCalls |-> <<>>,   \* byteLength handed to every fs.writeFile call
              written |-> <<>>,      \* byteLength of every write that succeeded
              errs |-> <<>>,         \* the error caught in every failed attempt
              sleeps |-> <<>>,       \* the duration of every backoff sleep
              size |-> 0])           \* the size of the returned result

\* the catch block: attempts++, then sleep before the next attempt or throw
catch(c, err) ==
    LET c1 == [c EXCEPT !.attempts = @ + 1, !.errs = Append(@, err)]
    IN IF shouldRetry(err, c1.attempts, c1.maxRetries)
       THEN [c1 EXCEPT !.pc = "sleep", !.sleeps = Append(@, c1.delay)]
       ELSE [c1 EXCEPT !.pc = "failed"]

\* `await axios.get` returned resp
onResponse(c, resp) ==
    LET c1 == [c EXCEPT !.responses = Append(@, resp.byteLength)]
    IN IF isEmptyResponse(resp)
       THEN catch(c1, EmptyResponseError)
       ELSE [c1 EXCEPT !.pc = "write", !.writeCalls = Append(@, resp.byteLength)]

\* faulty variant: the result is not returned after the write, the loop goes on
onWrittenNoReturn(c) ==
    LET n == c.writeCalls[Len(c.writeCalls)]
    IN [c EXCEPT !.pc = "get", !.gets = @ + 1, !.written = Append(@, n), !.size = n]

\* `await fs.writeFile` returned: the result is returned
onWritten(c) ==
    LET n == c.writeCalls[Len(c.writeCalls)]
    IN [c EXCEPT !.pc = "fulfilled", !.written = Append(@, n), !.size = n]

\* the backoff timer fired: double the delay and loop
onSleepElapsed(c) ==
    loopHead([c EXCEPT !.delay = nextDelay(@)])

DownloadTerminated(c) == c.pc \in {"fulfilled", "failed"}

\* values of the other components while they are not in use
DownloadIdle == call = [pc |-> "idle"]

NoError == Err(FALSE, NoCode, NoStatus, "none", "none")

\* the part of the file system install works on: whether cdn_modules exists,
\* the directories that exist in the library directory as paths relative to
\* it (<<>> is the library directory itself), and the files in them
Disk(root, dirs, files) == [root |-> root, dirs |-> dirs, files |-> files]

\* no cdn_modules
NoDisk == Disk(FALSE, {}, {})

InstallIdle ==
    /\ disk = [before |-> NoDisk, now |-> NoDisk]
    /\ verbose = FALSE
    /\ selectOnly = [given |-> FALSE, files |-> <<>>]
    /\ catalog = <<>>
    /\ installPc = "idle"
    /\ catalogError = NoError
    /\ rootMkdir = "none"
    /\ urls = <<>>
    /\ log = <<>>
    /\ exitCode = 0
    /\ taskPc = [i \in Tasks |-> "none"]
    /\ downloads = [i \in Tasks |-> [pc |-> "idle"]]
    /\ fileOutcomes = <<>>
    /\ progressCounter = 0
    /\ totalBytesDownloaded = 0
    /\ downloadedCount = 0
    /\ failedCount = 0

ProgressIdle ==
    /\ bar = [pc |-> "idle"]
    /\ stream = <<>>
    /\ barCalls = <<>>
    /\ barBefore = [pc |-> "idle"]
    /\ streamBefore = <<>>

CreateIdle == ctor = [pc |-> "idle"]
ScoreIdle == scoring = [pc |-> "idle"]
UninstallIdle == uninst = [pc |-> "idle"]
InsertIdle == ins = [pc |-> "idle"]
EmbedIdle == emb = [pc |-> "idle"]

ToolsIdle == ProgressIdle /\ CreateIdle /\ ScoreIdle /\ UninstallIdle /\ InsertIdle /\ EmbedIdle

Init ==
    /\ mode = "limiter"
    /\ ToolsIdle
    /\ concurrency \in 1..MaxConcurrency
    /\ LimiterInit
    /\ DownloadIdle
    /\ InstallIdle

\* a caller invokes limit(taskFn) with a task of behaviour k
limit(k) ==
    /\ mode = "limiter"
    /\ submitted < MaxTasks
    /\ submitted' = submitted + 1
    /\ SetLimiter(limitCall([LimiterState EXCEPT !.kind[submitted + 1] = k], submitted + 1))
    /\ UNCHANGED <<mode, toolVars, concurrency, downloadVars, installVars>>

Submit == \E k \in {"async", "syncThrow"} : limit(k)

\* the promise returned by the task function of task i settles with r
settle(i, r) ==
    /\ mode = "limiter"
    /\ taskState[i] = "running"
    /\ SetLimiter(taskWrapperResume(LimiterState, i, r))
    /\ UNCHANGED <<mode, toolVars, concurrency, submitted, downloadVars, installVars>>

Settle(i) == \E r \in {"resolved", "rejected"} : settle(i, r)

SettleAny == \E i \in Tasks : Settle(i)

Next == Submit \/ SettleAny

Spec == Init /\ [][Next]_vars

\* every started task eventually settles
LiveSpec == Spec /\ \A i \in Tasks : WF_vars(Settle(i))

-----------------------------------------------------------------------------
(* Properties of the limiter *)

Running == {i \in Tasks : taskState[i] = "running"}

\* C1: the number of tasks started and not yet settled never exceeds the
\* concurrency the limiter was created with; equivalently activeCount <= concurrency.
C1_ConcurrencyBound ==
    /\ activeCount <= concurrency
    /\ Cardinality(Running) <= concurrency

\* a burst: every slot taken while further tasks wait
C1_Witness ==
    /\ concurrency >= 2
    /\ activeCount = concurrency
    /\ Cardinality(Running) = concurrency
    /\ Len(queue) >= 2

\* C2: tasks are started in submission order: the k-th task started is the
\* k-th task submitted, whatever the order in which running tasks settle.
C2_StartInSubmissionOrder ==
    \A k \in 1..Len(startOrder) : startOrder[k] = k

\* two queued tasks were dispatched while the first task submitted still runs
C2_Witness ==
    /\ taskState[1] = "running"
    /\ \E a, b \in everQueued :
          /\ a < b
          /\ {a, b} \subseteq Range(startOrder)
          /\ \E j \in Tasks : j > 1 /\ j < a /\ taskState[j] = "settled"

\* C4: the limiter never stalls: every task handed to limit() is started, once,
\* and the promise limit() returned for it settles, given that every started
\* task settles. (A settled promise stays settled, so "again and again every
\* task submitted so far has been started and has settled" says that each does.)
C4_NoStall ==
    /\ []<>(\A i \in Tasks :
              taskState[i] # "unsubmitted" =>
                 (outer[i] # "pending" /\ i \in Range(startOrder)))
    /\ [](\A a, b \in 1..Len(startOrder) : startOrder[a] = startOrder[b] => a = b)

\* a task that had to wait in the queue has been started and its promise settled
C4_Witness ==
    \E i \in everQueued :
        /\ outer[i] # "pending"
        /\ i \in Range(startOrder)
        /\ submitted = MaxTasks

\* C5: a rejection reaches the promise of the rejecting task only: a promise is
\* rejected exactly when its own task failed; in the step in which a running
\* task rejects, its slot is handed to the head of the queue, every running
\* sibling keeps running with its promise pending, and waiting tasks keep
\* waiting; a task function that throws when it is called stops no running task.
C5_RejectionIsLocal ==
    /\ [](\A i \in Tasks :
            /\ outer[i] = "rejected" => i \in taskFailed
            /\ outer[i] = "resolved" => i \notin taskFailed)
    /\ [][\A i \in Tasks :
            (outer[i] = "pending" /\ outer'[i] = "rejected") =>
               /\ \A j \in Tasks \ {i} :
                     (taskState[i] = "running" /\ taskState[j] = "running") =>
                        (taskState'[j] = "running" /\ outer'[j] = "pending")
               /\ taskState[i] # "running" =>
                     Cardinality({j \in Tasks : taskState[j] = "running"
                                                  /\ taskState'[j] # "running"})
                        <= (IF taskState[i] = "queued" THEN 1 ELSE 0)
               /\ (taskState[i] = "running" /\ queue # <<>>)
                     => Head(queue) \in Range(startOrder')
               /\ \A j \in Range(queue') :
                     taskState'[j] = "queued" /\ outer'[j] = "pending"
               /\ activeCount' <= activeCount]_vars

\* a task rejected, a sibling that ran beside it still runs, and a task that was
\* waiting has since been started and has resolved
C5_Witness ==
    \E i, j, k \in Tasks :
        /\ i # j /\ j # k /\ i # k
        /\ outer[i] = "rejected" /\ kind[i] = "async"
        /\ j \notin everQueued /\ taskState[j] = "running"
        /\ k \in everQueued /\ outer[k] = "resolved"

-----------------------------------------------------------------------------
(* one call of downloadWithRetry, driven by the network, the disk and the timer *)

InitDownload ==
    /\ mode = "download"
    /\ ToolsIdle
    /\ concurrency = 1
    /\ LimiterInit
    /\ InstallIdle
    /\ \E mr \in 0..MaxRetriesBound, d \in InitialDelays : call = downloadStart(mr, d)

GetResponds ==
    /\ mode = "download"
    /\ call.pc = "get"
    /\ \E resp \in Responses : call' = onResponse(call, resp)
    /\ UNCHANGED <<mode, toolVars, limiterVars, installVars>>

GetFails ==
    /\ mode = "download"
    /\ call.pc = "get"
    /\ \E err \in GetErrors : call' = catch(call, err)
    /\ UNCHANGED <<mode, toolVars, limiterVars, installVars>>

WriteSucceeds ==
    /\ mode = "download"
    /\ call.pc = "write"
    /\ call' = onWritten(call)
    /\ UNCHANGED <<mode, toolVars, limiterVars, installVars>>

WriteFails ==
    /\ mode = "download"
    /\ call.pc = "write"
    /\ \E err \in WriteErrors : call' = catch(call, err)
    /\ UNCHANGED <<mode, toolVars, limiterVars, installVars>>

SleepElapses ==
    /\ mode = "download"
    /\ call.pc = "sleep"
    /\ call' = onSleepElapsed(call)
    /\ UNCHANGED <<mode, toolVars, limiterVars, installVars>>

NextDownload == GetResponds \/ GetFails \/ WriteSucceeds \/ WriteFails \/ SleepElapses

SpecDownload == InitDownload /\ [][NextDownload]_vars

\* every GET, every write and every timer of the call terminates
LiveDownload == SpecDownload /\ WF_vars(NextDownload)


-----------------------------------------------------------------------------
(* part_001: the install action, from the GET of the library page (line 60)
   to the summary (line 278) and the catch block (lines 280-328) *)

MaxUrls == 3

\* what the catalog can list: a URL whose asset downloads, a URL without the
\* cdnjs path structure, an asset the server answers with 404, an asset whose
\* server answers 503 to every request, an asset whose first request is reset
UrlClasses == {"ok", "unparseable", "notFound", "down", "flaky"}

\* the final path segment of a URL: stem, an optional ".min" infix, extension
FileName(stem, min, ext) == [stem |-> stem, min |-> min, ext |-> ext]

\* a listed URL: its place on the page (which identifies it), its final path
\* segment, and how the URL and its server behave
Url(pos, file, class) == [pos |-> pos, file |-> file, class |-> class, dir |-> <<>>]

NoUrl == 0

\* `!url.endsWith('.html')`, line 95
endsWithHtml(url) == url.file.ext = "html"

\* faulty variant: the pages are not filtered out
assetUrlsUnfiltered(cat) == cat

\* lines 91-95: the listed URLs without the .html pages
assetUrls(cat) == SelectSeq(cat, LAMBDA url : ~endsWithHtml(url))

\* String.prototype.toLowerCase on the names the model uses
toLowerCase(str) ==
    CASE str = "A" -> "a"
      [] str = "X" -> "x"
      [] str = "Test" -> "test"
      [] str = "Body" -> "body"
      [] OTHER -> str

\* faulty variant: the names are compared without regard to case
includesIgnoringCase(files, fileName) ==
    \E k \in 1..Len(files) :
        /\ toLowerCase(files[k].stem) = toLowerCase(fileName.stem)
        /\ files[k].min = fileName.min
        /\ files[k].ext = fileName.ext

\* `selectedFiles.includes(fileName)`, line 113: strict equality of strings
includes(files, fileName) == \E k \in 1..Len(files) : files[k] = fileName

\* lines 106-115: with --select-only the URLs whose final path segment
\* (`url.split('/').pop()`) is one of the names; all URLs without it
filterUrls(found, sel) ==
    IF sel.given
    THEN SelectSeq(found, LAMBDA url : includes(sel.files, url.file))
    ELSE found

\* `a.includes('.min.')`, lines 135-136
isMin(url) == url.file.min

\* faulty variant: the signs of the comparator are exchanged
compareReversed(a, b) ==
    IF isMin(a) /\ ~isMin(b) THEN 1
    ELSE IF ~isMin(a) /\ isMin(b) THEN -1
    ELSE 0

\* the comparator of lines 134-140
compare(a, b) ==
    IF isMin(a) /\ ~isMin(b) THEN -1
    ELSE IF ~isMin(a) /\ isMin(b) THEN 1
    ELSE 0

RECURSIVE insertSorted(_, _)
\* x, which came after every element of the sorted s, is put before the first
\* element it must precede (Array.prototype.sort is stable)
insertSorted(s, x) ==
    IF s = <<>> THEN <<x>>
    ELSE IF compare(x, Head(s)) < 0 THEN <<x>> \o s
    ELSE <<Head(s)>> \o insertSorted(Tail(s), x)

RECURSIVE sort(_)
\* `filteredUrls.sort(...)`, line 134
sort(s) ==
    IF s = <<>> THEN <<>>
    ELSE insertSorted(sort(SubSeq(s, 1, Len(s) - 1)), s[Len(s)])

\* what the GET of the library page can throw
CatalogErrors ==
    {Err(TRUE, "ERR_BAD_REQUEST", 404, "other", "catalog"),
     Err(TRUE, "ERR_BAD_RESPONSE", 500, "other", "catalog"),
     Err(TRUE, "ECONNABORTED", NoStatus, "other", "catalog")}

\* lines 68-83: the message built by the inner catch block
detailedErrorMessage(fetchError) ==
    "Failed during initial library info fetch"
    \o (IF fetchError.isAxiosError
        THEN ": AxiosError: "
             \o (IF fetchError.code = NoCode THEN "N/A" ELSE fetchError.code)
             \o (IF fetchError.status # NoStatus
                 THEN " - Status: " \o ToString(fetchError.status)
                 ELSE " - No response received")
        ELSE ": " \o fetchError.message)

\* the inner catch block, lines 67-87: whatever was caught, a plain Error
\* carrying that message is thrown (line 86)
rethrow(fetchError) ==
    Err(FALSE, NoCode, NoStatus, detailedErrorMessage(fetchError), "catalog")

\* how `fs.mkdirSync(libraryBaseDir, {recursive: true})` (line 159) can end
MkdirResults == {"ok", "EACCES"}

\* faulty variant: a failure to create the directory is ignored
mkdirThrowsNever(res) == FALSE

mkdirThrows(res) == res # "ok"

mkdirError(res) == Err(FALSE, res, NoStatus, "mkdir failed", "mkdirSync")

\* lines 289-313: the text the outer catch block reports for what it caught
errorMessage(error) ==
    IF error.isAxiosError
    THEN (IF error.status = 404 THEN "Could not find library on cdnjs (404)"
                                ELSE "Axios Error")
    ELSE error.message

\* a line of output: its level, its text, and the URL it names (if any)
Line(level, text, url) == [level |-> level, text |-> text, url |-> url]

\* the outer catch block, lines 280-328, as the lines it writes
catchLines(error, v) ==
    <<Line("error", errorMessage(error), NoUrl)>>
    \o (IF v THEN <<Line("error", "Verbose Error Details", NoUrl)>> ELSE <<>>)

\* the answer of `await axios.get(url, ...)` to GET number n of task i
serverAnswer(class, n, i) ==
    CASE class = "notFound" ->
            [error |-> TRUE, err |-> Err(TRUE, "ERR_BAD_REQUEST", 404, "other", "get")]
      [] class = "down" ->
            [error |-> TRUE, err |-> Err(TRUE, "ERR_BAD_RESPONSE", 503, "other", "get")]
      [] class = "flaky" /\ n = 1 ->
            [error |-> TRUE, err |-> Err(TRUE, "ECONNRESET", NoStatus, "other", "get")]
      [] OTHER ->
            [error |-> FALSE, resp |-> [hasData |-> TRUE, byteLength |-> i]]

\* lines 172-186: the URL has a 'libs' segment followed by name and version
isParseable(class) == class # "unparseable"

\* lines 179-193: the directory of the file below the library directory, the
\* path segments of the URL after libs/<name>/<version> without the last
fileDir(url) == url.dir

\* lines 155-159 when they do not throw: cdn_modules and the library directory exist
mkdirRoot(d) == [d EXCEPT !.root = TRUE, !.dirs = @ \cup {<<>>}]

\* a directory and the directories above it, up to the library directory
prefixes(dir) == {SubSeq(dir, 1, n) : n \in 0..Len(dir)}

\* faulty variant: mkdir without `recursive`
mkdirPlain(dirs, dir) ==
    IF dir \in dirs THEN [error |-> "EEXIST", dirs |-> dirs]
    ELSE IF SubSeq(dir, 1, Len(dir) - 1) \notin dirs THEN [error |-> "ENOENT", dirs |-> dirs]
    ELSE [error |-> "", dirs |-> dirs \cup {dir}]

\* fs.promises.mkdir(fileDir, {recursive: true}), line 200: the missing
\* directories of the path are created, an existing directory is no error
mkdir(dirs, dir) == [error |-> "", dirs |-> dirs \cup prefixes(dir)]

\* a JavaScript number: an integer of the model, or NaN
Num(n) == [nan |-> FALSE, n |-> n]
NaN == [nan |-> TRUE, n |-> 0]

\* `progressBar.update(progressCounter, totalBytesDownloaded)`, line 225
updateCall(counter, bytes) ==
    [name |-> "update", args |-> [value |-> Num(counter), hasBytes |-> TRUE, bytes |-> bytes]]

\* faulty variant: the bar is updated in the catch block and in the finally block
barUpdatesTwice(v, calls) == IF v THEN <<>> ELSE calls \o calls

\* lines 144-150 and 224: there is a progress bar unless --verbose is given
barUpdates(v, calls) == IF v THEN <<>> ELSE calls

RECURSIVE mapLimit(_, _, _)
\* prioritizedUrls.map(url => limit(...)): limit() is called for every URL in order
mapLimit(L, i, m) ==
    IF i > m THEN L ELSE mapLimit(limitCall(L, i), i + 1, m)

\* the ids whose taskWrapper was started by the step that leads to L
startedBy(L) == SubSeq(L.startOrder, Len(startOrder) + 1, Len(L.startOrder))

\* faulty variant: every task function sees the URL of the last iteration
taskUrlOfLast(u, i) == u[Len(u)].pos

\* the `url` that the task function of prioritizedUrls[i] closes over
taskUrl(u, i) == u[i].pos

\* the lines 217-219 for task j: the report, and the entry of fileOutcomes
failureLine(u, j) == Line("error", "Download failed for URL", taskUrl(u, j))

\* The synchronous head of the task function of every task started in this
\* step (lines 166-200), u being prioritizedUrls: a URL that cannot be parsed
\* throws into the catch block (logError and fileOutcomes.push, lines 217-219)
\* and the finally block (progressCounter++, line 222) and the function returns
\* a rejected promise; otherwise the task suspends at `await fs.promises.mkdir`.
TaskHeads(L, u) ==
    LET new == startedBy(L)
        bad == SelectSeq(new, LAMBDA j : ~isParseable(u[j].class))
    IN /\ taskPc' = [j \in Tasks |->
                       IF j \in Range(new)
                       THEN (IF isParseable(u[j].class) THEN "mkdir" ELSE "thrown")
                       ELSE taskPc[j]]
       /\ fileOutcomes' = fileOutcomes \o
              [k \in 1..Len(bad) |-> [status |-> "rejected", url |-> taskUrl(u, bad[k])]]
       /\ log' = log \o [k \in 1..Len(bad) |-> failureLine(u, bad[k])]
       /\ progressCounter' = progressCounter + Len(bad)
       /\ barCalls' = barCalls \o barUpdates(verbose,
              [k \in 1..Len(bad) |-> updateCall(progressCounter + k, totalBytesDownloaded)])

\* faulty variant: an outcome is recorded for every failed attempt
outcomeOfEveryAttempt(d) ==
    IF d.pc = "fulfilled" THEN <<"fulfilled">>
    ELSE IF d.pc \in {"failed", "sleep"} THEN <<"rejected">>
    ELSE <<>>

\* what the task function records when its downloadWithRetry call stands at d:
\* 'fulfilled' once it returned (line 213), 'rejected' once it threw (line 219)
outcomeOf(d) ==
    IF d.pc = "fulfilled" THEN <<"fulfilled">>
    ELSE IF d.pc = "failed" THEN <<"rejected">>
    ELSE <<>>

\* The tail of the task function once downloadWithRetry has returned or thrown
\* (lines 207-232): report and push the outcome, then the finally block.
TaskTail(i, d) ==
    /\ downloads' = [downloads EXCEPT ![i] = d]
    /\ fileOutcomes' = fileOutcomes \o
           [k \in 1..Len(outcomeOf(d)) |->
               [status |-> outcomeOf(d)[k], url |-> taskUrl(urls, i)]]
    /\ log' = log \o
           (IF outcomeOf(d) = <<"rejected">> THEN <<failureLine(urls, i)>>
            ELSE IF outcomeOf(d) = <<"fulfilled">> /\ verbose
                 THEN <<Line("success", "Saved", taskUrl(urls, i))>>
            ELSE <<>>)
    /\ IF DownloadTerminated(d)
       THEN /\ taskPc' = [taskPc EXCEPT ![i] =
                             IF d.pc = "fulfilled" THEN "returned" ELSE "thrown"]
            /\ progressCounter' = progressCounter + 1
            /\ totalBytesDownloaded' = totalBytesDownloaded + d.size
            /\ barCalls' = barCalls \o barUpdates(verbose,
                   <<updateCall(progressCounter + 1, totalBytesDownloaded + d.size)>>)
       ELSE UNCHANGED <<taskPc, progressCounter, totalBytesDownloaded, barCalls>>

\* faulty variant: the batch is awaited with Promise.all, which settles on the first rejection
anyRejectedOrAllSettled(o, m) ==
    \/ \E i \in 1..m : o[i] = "rejected"
    \/ \A i \in 1..m : o[i] # "pending"

\* `await Promise.allSettled(downloadPromises)` (line 237) continues
allSettled(o, m) == \A i \in 1..m : o[i] # "pending"

\* the results of Promise.allSettled, in the order of downloadPromises
settledResults(o, m) == [i \in 1..m |-> o[i]]

\* lines 250-261, the else branch: without --verbose one line per rejected
\* result, naming prioritizedUrls[index]
failedTaskLines(u, res, v) ==
    LET idx == SelectSeq([i \in 1..Len(res) |-> i], LAMBDA i : res[i] = "rejected")
    IN IF v THEN <<>>
       ELSE [k \in 1..Len(idx) |-> Line("error", "Failed Task Summary", u[idx[k]].pos)]

\* lines 264-278: the closing line
summaryLine(dc, fc, m) ==
    IF dc > 0
    THEN (IF fc = 0 THEN Line("success", "Successfully installed all files", NoUrl)
                    ELSE Line("warning", "Successfully installed some files", NoUrl))
    ELSE IF m > 0 THEN Line("error", "No files were successfully downloaded", NoUrl)
    ELSE Line("warning", "No files were selected or available", NoUrl)

\* a library page that lists up to MaxUrls assets of every behaviour, installed
\* without --select-only; the file at every second place is minified
BatchInputs ==
    /\ \E m \in 0..MaxUrls : \E cl \in [1..m -> UrlClasses] :
          catalog = [k \in 1..m |->
                        Url(k, FileName(ToString(k), k % 2 = 0, "js"), cl[k])]
    /\ selectOnly = [given |-> FALSE, files |-> <<>>]

\* the files of a small library: a script, its minified form, another script
\* whose name differs in case only and is missing on the server, and a page
ListedFiles ==
    {[file |-> FileName("a", FALSE, "js"), class |-> "ok"],
     [file |-> FileName("a", TRUE, "js"), class |-> "ok"],
     [file |-> FileName("A", FALSE, "js"), class |-> "notFound"],
     [file |-> FileName("index", FALSE, "html"), class |-> "ok"]}

Allowlists ==
    {<<FileName("a", FALSE, "js")>>,
     <<FileName("a", TRUE, "js"), FileName("a", FALSE, "js")>>,
     <<FileName("A", FALSE, "js"), FileName("index", FALSE, "html")>>}

\* a page listing up to MaxUrls of these files, installed with --select-only
SelectInputs ==
    /\ \E m \in 1..MaxUrls : \E f \in [1..m -> ListedFiles] :
          catalog = [k \in 1..m |-> Url(k, f[k].file, f[k].class)]
    /\ \E files \in Allowlists : selectOnly = [given |-> TRUE, files |-> files]

\* where the files of a library can lie below its directory
FileDirs == {<<>>, <<"css">>, <<"css", "fonts">>}

\* cdn_modules as it can be before an install: missing, holding other
\* libraries only, or holding this library from an earlier install
DisksBefore == {NoDisk, Disk(TRUE, {}, {}), Disk(TRUE, {<<>>, <<"css">>}, {})}

\* a page that lists up to MaxUrls downloadable files in these directories,
\* installed without --select-only
TreeInputs ==
    /\ \E m \in 1..MaxUrls : \E d \in [1..m -> FileDirs] :
          catalog = [k \in 1..m |->
                        [Url(k, FileName(ToString(k), FALSE, "js"), "ok") EXCEPT !.dir = d[k]]]
    /\ selectOnly = [given |-> FALSE, files |-> <<>>]
    /\ \E before \in DisksBefore : disk = [before |-> before, now |-> before]

\* the install action has created its limiter and issued the GET of the library
\* page (line 60)
InitInstall ==
    /\ mode = "install"
    /\ ToolsIdle
    /\ concurrency \in 1..MaxConcurrency
    /\ LimiterInit
    /\ DownloadIdle
    /\ verbose \in BOOLEAN
    /\ \/ (BatchInputs \/ SelectInputs) /\ disk = [before |-> NoDisk, now |-> NoDisk]
       \/ TreeInputs
    /\ installPc = "fetching"
    /\ catalogError = NoError
    /\ rootMkdir = "none"
    /\ urls = <<>>
    /\ log = <<>>
    /\ exitCode = 0
    /\ taskPc = [i \in Tasks |-> "none"]
    /\ downloads = [i \in Tasks |-> [pc |-> "idle"]]
    /\ fileOutcomes = <<>>
    /\ progressCounter = 0
    /\ totalBytesDownloaded = 0
    /\ downloadedCount = 0
    /\ failedCount = 0

\* the GET of the library page throws: the inner catch block rethrows (line 86)
\* and the outer catch block reports and sets the exit code (lines 280-328)
CatalogFails ==
    /\ mode = "install"
    /\ installPc = "fetching"
    /\ \E fetchError \in CatalogErrors :
          /\ catalogError' = fetchError
          /\ log' = log \o catchLines(rethrow(fetchError), verbose)
    /\ exitCode' = 1
    /\ installPc' = "caught"
    /\ UNCHANGED <<mode, toolVars, disk, limiterVars, downloadVars, verbose, selectOnly, catalog,
                   rootMkdir, urls, taskPc, downloads, fileOutcomes, progressCounter,
                   totalBytesDownloaded, downloadedCount, failedCount>>

\* the page arrived and lists no asset: lines 97-100
NoAssets ==
    /\ mode = "install"
    /\ installPc = "fetching"
    /\ assetUrls(catalog) = <<>>
    /\ log' = Append(log, Line("error", "No actual asset files found", NoUrl))
    /\ installPc' = "returned"
    /\ UNCHANGED <<mode, toolVars, disk, limiterVars, downloadVars, verbose, selectOnly, catalog,
                   catalogError, rootMkdir, urls, exitCode, taskPc, downloads,
                   fileOutcomes, progressCounter, totalBytesDownloaded,
                   downloadedCount, failedCount>>

\* the page arrived and no listed asset is selected: lines 117-132
NothingSelected ==
    /\ mode = "install"
    /\ installPc = "fetching"
    /\ assetUrls(catalog) # <<>>
    /\ filterUrls(assetUrls(catalog), selectOnly) = <<>>
    /\ log' = Append(log,
                IF selectOnly.given
                THEN (IF verbose
                      THEN Line("warning", "No files matched the --select-only criteria", NoUrl)
                      ELSE Line("error", "No files match the selected criteria", NoUrl))
                ELSE Line("error", "No files available for download", NoUrl))
    /\ installPc' = "returned"
    /\ UNCHANGED <<mode, toolVars, disk, limiterVars, downloadVars, verbose, selectOnly, catalog,
                   catalogError, rootMkdir, urls, exitCode, taskPc, downloads,
                   fileOutcomes, progressCounter, totalBytesDownloaded,
                   downloadedCount, failedCount>>

\* the page arrived, files are selected and ordered, and creating cdn_modules
\* or the library directory throws (lines 155-159): the outer catch block
RootMkdirFails ==
    /\ mode = "install"
    /\ installPc = "fetching"
    /\ filterUrls(assetUrls(catalog), selectOnly) # <<>>
    /\ \E res \in MkdirResults :
          /\ mkdirThrows(res)
          /\ rootMkdir' = res
          /\ log' = log \o catchLines(mkdirError(res), verbose)
    /\ urls' = sort(filterUrls(assetUrls(catalog), selectOnly))
    /\ exitCode' = 1
    /\ installPc' = "caught"
    /\ UNCHANGED <<mode, toolVars, disk, limiterVars, downloadVars, verbose, selectOnly, catalog,
                   catalogError, taskPc, downloads, fileOutcomes, progressCounter,
                   totalBytesDownloaded, downloadedCount, failedCount>>

\* the page arrived, files are selected and ordered, the directory exists:
\* every URL is handed to limit() (lines 164-234), then the action awaits
SubmitAll ==
    /\ mode = "install"
    /\ installPc = "fetching"
    /\ filterUrls(assetUrls(catalog), selectOnly) # <<>>
    /\ \E res \in MkdirResults :
          /\ ~mkdirThrows(res)
          /\ rootMkdir' = res
    /\ disk' = [disk EXCEPT !.now = mkdirRoot(@)]
    /\ LET u == sort(filterUrls(assetUrls(catalog), selectOnly))
           L == mapLimit(LimiterState, 1, Len(u))
       IN /\ urls' = u
          /\ SetLimiter(L)
          /\ TaskHeads(L, u)
          /\ submitted' = Len(u)
    /\ installPc' = "awaitAll"
    /\ UNCHANGED <<mode, otherTools, concurrency, downloadVars, verbose, selectOnly, catalog,
                   catalogError, exitCode, downloads, totalBytesDownloaded,
                   downloadedCount, failedCount>>

\* what the task steps leave alone: the options, the page and what came of it
resolved == <<verbose, selectOnly, catalog, catalogError, rootMkdir, urls, exitCode>>

\* `await fs.promises.mkdir(fileDir, {recursive: true})` settles (line 200).
\* When it resolved, downloadWithRetry is called with its default maxRetries
\* and initialDelay; when it rejected, the catch block and the finally block
\* run (lines 215-227) and the task function throws.
MkdirDone(i) ==
    /\ mode = "install"
    /\ taskPc[i] = "mkdir"
    /\ LET r == mkdir(disk.now.dirs, fileDir(urls[i]))
       IN /\ disk' = [disk EXCEPT !.now.dirs = r.dirs]
          /\ IF r.error = ""
             THEN /\ taskPc' = [taskPc EXCEPT ![i] = "download"]
                  /\ downloads' = [downloads EXCEPT ![i] =
                                      downloadStart(DefaultMaxRetries, DefaultInitialDelay)]
                  /\ UNCHANGED <<log, fileOutcomes, progressCounter, barCalls>>
             ELSE /\ taskPc' = [taskPc EXCEPT ![i] = "thrown"]
                  /\ log' = Append(log, failureLine(urls, i))
                  /\ fileOutcomes' = Append(fileOutcomes,
                                            [status |-> "rejected", url |-> taskUrl(urls, i)])
                  /\ progressCounter' = progressCounter + 1
                  /\ barCalls' = barCalls \o barUpdates(verbose,
                         <<updateCall(progressCounter + 1, totalBytesDownloaded)>>)
                  /\ UNCHANGED downloads
    /\ UNCHANGED <<mode, otherTools, limiterVars, downloadVars, installPc, resolved,
                   totalBytesDownloaded, downloadedCount, failedCount>>

\* the GET of task i completes with the answer of its server
GetCompletes(i) ==
    /\ mode = "install"
    /\ taskPc[i] = "download"
    /\ downloads[i].pc = "get"
    /\ LET a == serverAnswer(urls[i].class, downloads[i].gets, i)
       IN TaskTail(i, IF a.error THEN catch(downloads[i], a.err)
                                 ELSE onResponse(downloads[i], a.resp))
    /\ UNCHANGED <<mode, otherTools, disk, limiterVars, downloadVars, installPc, resolved,
                   downloadedCount, failedCount>>

\* the file of task i is written
WriteCompletes(i) ==
    /\ mode = "install"
    /\ taskPc[i] = "download"
    /\ downloads[i].pc = "write"
    /\ TaskTail(i, onWritten(downloads[i]))
    /\ disk' = [disk EXCEPT !.now.files =
                    @ \cup {[dir |-> fileDir(urls[i]), file |-> urls[i].file]}]
    /\ UNCHANGED <<mode, otherTools, limiterVars, downloadVars, installPc, resolved,
                   downloadedCount, failedCount>>

\* the backoff timer of task i fires
BackoffElapses(i) ==
    /\ mode = "install"
    /\ taskPc[i] = "download"
    /\ downloads[i].pc = "sleep"
    /\ TaskTail(i, onSleepElapsed(downloads[i]))
    /\ UNCHANGED <<mode, otherTools, disk, limiterVars, downloadVars, installPc, resolved,
                   downloadedCount, failedCount>>

\* the continuation of the taskWrapper of task i: the promise of the task
\* function has settled; the slot goes to the next queued task, whose head runs
TaskSettles(i) ==
    /\ mode = "install"
    /\ taskState[i] = "running"
    /\ taskPc[i] \in {"returned", "thrown"}
    /\ LET L == taskWrapperResume(LimiterState, i,
                    IF taskPc[i] = "returned" THEN "resolved" ELSE "rejected")
       IN /\ SetLimiter(L)
          /\ TaskHeads(L, urls)
    /\ UNCHANGED <<mode, otherTools, disk, concurrency, submitted, downloadVars, installPc, resolved,
                   downloads, totalBytesDownloaded, downloadedCount, failedCount>>

\* lines 237-278: all promises have settled; the outcomes are counted by index
\* and the closing line is written
CountOutcomes ==
    /\ mode = "install"
    /\ installPc = "awaitAll"
    /\ allSettled(outer, Len(urls))
    /\ LET res == settledResults(outer, Len(urls))
           dc == Cardinality({i \in 1..Len(res) : res[i] = "resolved"})
           fc == Cardinality({i \in 1..Len(res) : res[i] # "resolved"})
       IN /\ downloadedCount' = dc
          /\ failedCount' = fc
          /\ log' = (log \o failedTaskLines(urls, res, verbose))
                        \o <<summaryLine(dc, fc, Len(urls))>>
    /\ installPc' = "done"
    /\ UNCHANGED <<mode, toolVars, disk, limiterVars, downloadVars, resolved, taskPc, downloads,
                   fileOutcomes, progressCounter, totalBytesDownloaded>>

TaskStep(i) ==
    \/ MkdirDone(i)
    \/ GetCompletes(i)
    \/ WriteCompletes(i)
    \/ BackoffElapses(i)
    \/ TaskSettles(i)

NextInstall ==
    \/ CatalogFails
    \/ NoAssets
    \/ NothingSelected
    \/ RootMkdirFails
    \/ SubmitAll
    \/ \E i \in Tasks : TaskStep(i)
    \/ CountOutcomes

SpecInstall == InitInstall /\ [][NextInstall]_vars

-----------------------------------------------------------------------------
(* Properties of the install batch *)

AlwaysFails(class) == class \in {"unparseable", "notFound", "down"}

FailingUrls == {i \in 1..Len(urls) : AlwaysFails(urls[i].class)}

\* C3: a failure of any subset of the files never prevents the others from
\* being attempted: when the batch is counted every task was started once and
\* ran to its end, every file whose download can succeed was downloaded, the
\* failures counted are the files that always fail and the successes are the
\* rest (one always-failing file among M: 1 failure, M - 1 successes).
C3_FailuresAreIndependent ==
    installPc = "done" =>
        /\ Len(startOrder) = Len(urls)
        /\ Range(startOrder) = 1..Len(urls)
        /\ \A i \in 1..Len(urls) :
              /\ taskState[i] = "settled"
              /\ isParseable(urls[i].class) => DownloadTerminated(downloads[i])
              /\ ~AlwaysFails(urls[i].class) =>
                    (downloads[i].pc = "fulfilled" /\ outer[i] = "resolved")
        /\ failedCount = Cardinality(FailingUrls)
        /\ downloadedCount = Len(urls) - Cardinality(FailingUrls)
        /\ Len(fileOutcomes) = Len(urls)

\* three files through fewer slots, the first of them always failing
C3_Witness ==
    /\ installPc = "done"
    /\ Len(urls) >= 3
    /\ concurrency < Len(urls)
    /\ FailingUrls = {1}
    /\ urls[1].class = "down"
    /\ failedCount = 1
    /\ downloadedCount = Len(urls) - 1
    /\ everQueued # {}

-----------------------------------------------------------------------------
(* Properties of the install action as a whole *)

\* the install action has ended: after the summary, by an early return, or in
\* the catch block
Ended == installPc \in {"done", "returned", "caught"}

\* the tasks whose file was written
Installed == {i \in 1..Len(urls) : downloads[i].pc = "fulfilled"}

ErrorLines == {k \in 1..Len(log) : log[k].level = "error"}

\* C13: install ends with exit code 0 whenever at least one file was installed,
\* and with a non-zero exit code whenever no file was installed (all downloads
\* failed, the catalog listed no files, the allowlist matched nothing) or the
\* catalog lookup failed.
C13_ExitCode ==
    Ended =>
        /\ Installed # {} => exitCode = 0
        /\ Installed = {} => exitCode # 0
        /\ catalogError # NoError => exitCode # 0

\* C14: the exit status is non-zero whenever at least one requested file could
\* not be installed, and the files that did succeed are still counted and
\* reported in the summary.
C14_ExitReflectsFailure ==
    installPc = "done" =>
        /\ failedCount > 0 => exitCode # 0
        /\ downloadedCount = Cardinality(Installed)
        /\ downloadedCount > 0 =>
              log[Len(log)].text \in {"Successfully installed all files",
                                      "Successfully installed some files"}

\* C15: when the GET of the library page fails or the library directory cannot
\* be created, install aborts before the batch: no task is submitted or
\* started, no download is begun and no file written, the exit code is set to
\* 1, and without --verbose exactly one error line is printed.
C15_AbortBeforeBatch ==
    (catalogError # NoError \/ rootMkdir \notin {"none", "ok"}) =>
        /\ installPc = "caught"
        /\ submitted = 0
        /\ startOrder = <<>>
        /\ queue = <<>>
        /\ \A i \in Tasks : taskPc[i] = "none" /\ downloads[i].pc = "idle"
        /\ fileOutcomes = <<>>
        /\ exitCode = 1
        /\ ~verbose => (Len(log) = 1 /\ ErrorLines = {1})

\* two files were selected and ordered when the directory could not be created
C15_Witness ==
    /\ installPc = "caught"
    /\ rootMkdir = "EACCES"
    /\ Len(urls) >= 2
    /\ ~verbose
    /\ log = <<Line("error", "mkdir failed", NoUrl)>>
    /\ exitCode = 1

\* C16: a 404 answer to the GET of the library page is reported as 'Could not
\* find library ... (404)', every other failure of that GET as a failed fetch.
C16_NotFoundClassification ==
    catalogError # NoError =>
        LET reported == {log[k].text : k \in ErrorLines}
        IN IF catalogError.status = 404
           THEN "Could not find library on cdnjs (404)" \in reported
           ELSE "Could not find library on cdnjs (404)" \notin reported

\* the entries of fileOutcomes naming the URL of task i
OutcomesOf(i) == {k \in 1..Len(fileOutcomes) : fileOutcomes[k].url = urls[i].pos}

\* C17: every submitted URL produces exactly one final outcome, however many
\* attempts its download made: never more than one entry of fileOutcomes per
\* URL, and once all tasks have settled exactly one per URL, and
\* downloadedCount + failedCount is the number of submitted URLs, each count
\* being the number of outcomes of its kind.
C17_OneOutcomePerUrl ==
    /\ \A i \in 1..Len(urls) : Cardinality(OutcomesOf(i)) <= 1
    /\ installPc = "done" =>
          /\ \A i \in 1..Len(urls) : Cardinality(OutcomesOf(i)) = 1
          /\ Len(fileOutcomes) = submitted
          /\ downloadedCount + failedCount = submitted
          /\ downloadedCount =
                Cardinality({k \in 1..Len(fileOutcomes) :
                                fileOutcomes[k].status = "fulfilled"})
          /\ failedCount =
                Cardinality({k \in 1..Len(fileOutcomes) :
                                fileOutcomes[k].status = "rejected"})

\* one file needed a second attempt, another failed after three
C17_Witness ==
    /\ installPc = "done"
    /\ \E i, j \in 1..Len(urls) :
          /\ downloads[i].pc = "fulfilled" /\ downloads[i].gets = 2
          /\ downloads[j].pc = "failed" /\ downloads[j].gets = 3
    /\ downloadedCount >= 1
    /\ failedCount >= 1

\* the lines of the log that report a failed download, and the URL they name
FailureReports ==
    {k \in 1..Len(log) :
        log[k].text \in {"Download failed for URL", "Failed Task Summary"}}

\* C18: each outcome is attributed to the URL of the task that produced it,
\* whatever the completion order: an entry of fileOutcomes is 'rejected'
\* exactly when the URL it names is one whose download fails, every failure
\* report names such a URL, and the end-of-batch reports name exactly the URLs
\* that failed.
C18_OutcomeAttribution ==
    /\ \A k \in 1..Len(fileOutcomes) :
          fileOutcomes[k].status = "rejected"
              <=> AlwaysFails(catalog[fileOutcomes[k].url].class)
    /\ \A k \in FailureReports : AlwaysFails(catalog[log[k].url].class)
    /\ \A k \in 1..Len(log) :
          log[k].text = "Saved" => ~AlwaysFails(catalog[log[k].url].class)
    /\ (installPc = "done" /\ ~verbose) =>
          {log[k].url : k \in {r \in FailureReports : log[r].text = "Failed Task Summary"}}
              = {urls[i].pos : i \in FailingUrls}

\* the last URL submitted fails before the first one has finished
C18_Witness ==
    /\ installPc = "done"
    /\ ~verbose
    /\ Len(urls) >= 2
    /\ fileOutcomes[1] = [status |-> "rejected", url |-> urls[Len(urls)].pos]
    /\ fileOutcomes[Len(fileOutcomes)].status = "fulfilled"
    /\ fileOutcomes[Len(fileOutcomes)].url = urls[1].pos
    /\ urls[1].pos # 1

\* the URLs that were selected, in the order of the page
Filtered == filterUrls(assetUrls(catalog), selectOnly)

\* C19: the prioritised list is a permutation of the filtered URLs in which
\* every URL containing '.min.' precedes every URL that does not, the order of
\* the page being kept within each of the two groups.
C19_MinFirstStable ==
    rootMkdir # "none" =>
        urls = SelectSeq(Filtered, LAMBDA url : isMin(url))
               \o SelectSeq(Filtered, LAMBDA url : ~isMin(url))

\* a minified file listed between two others moves to the front
C19_Witness ==
    /\ rootMkdir = "ok"
    /\ Len(urls) = 3
    /\ urls[1].pos = 2 /\ isMin(urls[1])
    /\ urls[2].pos = 1 /\ ~isMin(urls[2])
    /\ urls[3].pos = 3 /\ ~isMin(urls[3])

\* the places on the page of the assets whose final path segment is one of the
\* names given with --select-only
Matching ==
    {k \in 1..Len(catalog) :
        /\ ~endsWithHtml(catalog[k])
        /\ catalog[k].file \in Range(selectOnly.files)}

Unparseable == {i \in 1..Len(urls) : ~isParseable(urls[i].class)}

\* C21: a URL whose path lacks the 'libs' segment followed by name and version
\* is dropped with a warning: it is not counted as a failed download, no error
\* is reported for it, and all other URLs are still downloaded.
C21_UnparseableDropped ==
    installPc = "done" =>
        /\ failedCount = Cardinality(FailingUrls \ Unparseable)
        /\ \A k \in ErrorLines : log[k].url \notin {urls[i].pos : i \in Unparseable}
        /\ \A i \in 1..Len(urls) :
              ~AlwaysFails(urls[i].class) => downloads[i].pc = "fulfilled"

-----------------------------------------------------------------------------
(* Properties of downloadWithRetry *)

RECURSIVE Pow2(_)
Pow2(n) == IF n = 0 THEN 1 ELSE 2 * Pow2(n - 1)

\* the k-th failed attempt was followed by a backoff sleep and another attempt
Retried(c, k) == k < Len(c.errs) \/ (k = Len(c.errs) /\ c.pc # "failed")

\* C6: at most 1 + maxRetries GETs are issued, exactly 1 + maxRetries when every
\* attempt fails with a retryable error, after which the call fails; and the
\* call terminates when each of its attempts does.
C6_AttemptBound ==
    /\ [](call.gets <= 1 + call.maxRetries)
    /\ []((DownloadTerminated(call)
             /\ Len(call.errs) = call.gets
             /\ \A k \in 1..Len(call.errs) : isRetryable(call.errs[k]))
          => (call.pc = "failed" /\ call.gets = 1 + call.maxRetries))
    /\ <>DownloadTerminated(call)

\* retries were exhausted by retryable failures
C6_Witness ==
    /\ call.pc = "failed"
    /\ call.maxRetries = DefaultMaxRetries
    /\ call.gets = 1 + call.maxRetries
    /\ \A k \in 1..Len(call.errs) : isRetryable(call.errs[k])

\* C7: the sleep before the k-th retry lasts min(initialDelay * 2^(k-1), 10000) ms
\* for every initialDelay, so that no sleep exceeds 10000 ms.
C7_BackoffDelay ==
    \A k \in 1..Len(call.sleeps) :
        /\ call.sleeps[k] = Min(call.initialDelay * Pow2(k - 1), MaxDelay)
        /\ call.sleeps[k] <= MaxDelay

\* C8: a non-retryable failure ends the call in that attempt: no sleep follows
\* it and no further GET is issued.
C8_NonRetryableFailsAtOnce ==
    \A k \in 1..Len(call.errs) :
        ~isRetryable(call.errs[k]) =>
            /\ k = Len(call.errs)
            /\ call.pc = "failed"
            /\ call.gets = k
            /\ Len(call.sleeps) = k - 1

\* HTTP 404 on the first attempt although retries were allowed
C8_Witness ==
    /\ call.maxRetries >= 1
    /\ call.pc = "failed"
    /\ Len(call.errs) = 1
    /\ call.errs[1].status = 404
    /\ call.gets = 1
    /\ call.sleeps = <<>>

\* the failures the original classification names: a failure of the connection
\* with one of the four codes, or an HTTP 5xx response
ListedTransient(e) ==
    /\ e.origin = "get"
    /\ \/ e.code \in TransientCodes
       \/ (e.status >= 500 /\ e.status <= 599)

\* C9 as stated: a failure is retried exactly when it is a connection timeout,
\* reset, broken pipe, abort or an HTTP 5xx status; every other failure,
\* a local file-write error included, surfaces at once.
C9_Original ==
    \A k \in 1..Len(call.errs) :
        k <= call.maxRetries =>
            (Retried(call, k) <=> ListedTransient(call.errs[k]))

\* the classification the code implements
Transient(e) ==
    \/ e.code \in TransientCodes
    \/ (e.isAxiosError /\ e.status >= 500)
    \/ e.origin = "empty"

\* C9 amended: a failure is retried exactly when it carries one of the codes
\* ETIMEDOUT, ECONNRESET, EPIPE, ECONNABORTED, or is an HTTP response with status
\* >= 500, or is the empty-response failure; every other failure surfaces at once.
C9_RetryClassification ==
    \A k \in 1..Len(call.errs) :
        /\ k <= call.maxRetries =>
              (Retried(call, k) <=> Transient(call.errs[k]))
        /\ (~Transient(call.errs[k])) => (k = Len(call.errs) /\ call.pc = "failed")

\* a broken pipe and an empty body were retried, then HTTP 403 ended the call
C9_Witness ==
    /\ Len(call.errs) = 3
    /\ call.errs[1].isAxiosError /\ call.errs[1].code = "EPIPE"
    /\ call.errs[2].origin = "empty"
    /\ call.errs[3].status = 403
    /\ call.pc = "failed"

EmptyAttempts(c) == {k \in 1..Len(c.errs) : c.errs[k].origin = "empty"}

\* C10: an empty body is never a success: nothing is written in that attempt,
\* the attempt is retried like a transient failure, and a call whose every
\* attempt returns an empty body fails after 1 + maxRetries attempts.
C10_EmptyBodyIsTransient ==
    /\ \A k \in 1..Len(call.writeCalls) : call.writeCalls[k] > 0
    /\ Len(call.writeCalls) =
          Cardinality({k \in 1..Len(call.responses) : call.responses[k] > 0})
    /\ Cardinality(EmptyAttempts(call)) =
          Cardinality({k \in 1..Len(call.responses) : call.responses[k] = 0})
    /\ call.pc = "fulfilled" => call.size > 0
    /\ \A k \in EmptyAttempts(call) : k <= call.maxRetries => Retried(call, k)
    /\ (DownloadTerminated(call) /\ EmptyAttempts(call) = 1..call.gets)
          => (call.pc = "failed" /\ call.gets = 1 + call.maxRetries)

\* every attempt of a call with retries returned an empty body
C10_Witness ==
    /\ call.maxRetries >= 1
    /\ call.pc = "failed"
    /\ EmptyAttempts(call) = 1..call.gets
    /\ call.gets = 1 + call.maxRetries
    /\ call.writeCalls = <<>>

RECURSIVE SumSeq(_)
SumSeq(q) == IF q = <<>> THEN 0 ELSE Head(q) + SumSeq(Tail(q))

\* the backoff delay before the k-th retry: initialDelay, then doubled each
\* time up to the cap
BackoffDelay(c, k) ==
    IF k = 1 THEN c.initialDelay ELSE Min(c.initialDelay * Pow2(k - 1), MaxDelay)

\* C11: when the first j attempts fail with retryable errors and attempt j + 1
\* succeeds, the call is fulfilled with the byte length of the payload of
\* attempt j + 1, and it has slept once per failed attempt, in total the sum of
\* the first j backoff delays (1500 + 3000 ms for j = 2 and the defaults).
C11_SuccessAfterRetries ==
    (call.pc = "fulfilled" /\ Len(call.errs) >= 1) =>
        LET j == Len(call.errs)
        IN /\ j <= call.maxRetries
           /\ \A k \in 1..j : isRetryable(call.errs[k])
           /\ call.gets = j + 1
           /\ call.size = call.responses[Len(call.responses)]
           /\ Len(call.sleeps) = j
           /\ SumSeq(call.sleeps) = SumSeq([k \in 1..j |-> BackoffDelay(call, k)])

\* two resets, then the third attempt of a default call delivers its payload
C11_Witness ==
    /\ call.pc = "fulfilled"
    /\ call.maxRetries = DefaultMaxRetries
    /\ call.initialDelay = DefaultInitialDelay
    /\ Len(call.errs) = 2
    /\ \A k \in 1..2 : call.errs[k].code = "ECONNRESET"
    /\ call.gets = 3
    /\ call.size = MaxPayload
    /\ SumSeq(call.sleeps) = DefaultInitialDelay + 2 * DefaultInitialDelay

\* C12: the file is written only in an attempt whose GET delivered a non-empty
\* payload, and with that whole payload; a fulfilled call has made exactly one
\* successful write, of the payload whose byte count it returns; a failed call
\* has made none.
C12_WriteOnlyOnSuccess ==
    /\ \A k \in 1..Len(call.writeCalls) : call.writeCalls[k] > 0
    /\ call.writeCalls =
          SelectSeq(call.responses, LAMBDA n : n > 0)
    /\ Len(call.written) <= 1
    /\ call.pc = "fulfilled" <=> Len(call.written) = 1
    /\ call.pc = "fulfilled" =>
          /\ call.written = <<call.size>>
          /\ call.size = call.responses[Len(call.responses)]
    /\ call.pc = "failed" => call.written = <<>>

\* a write failed, the retry wrote the payload
C12_Witness ==
    /\ call.pc = "fulfilled"
    /\ Len(call.writeCalls) = 2
    /\ call.written = <<MaxPayload>>
    /\ call.errs[1].origin = "write"

-----------------------------------------------------------------------------
(* logging.ts: class ProgressBar, lines 104-213 *)

MaxTotal == 2
MaxBarCalls == 3

\* `barLength: number = 40`, line 114
DefaultBarLength == 40

\* faulty variant: the upper limit is not applied
MathMinFirst(a, b) == a

\* Math.max and Math.min: NaN when an argument is NaN
MathMax(a, b) == IF a.nan \/ b.nan THEN NaN ELSE IF a.n >= b.n THEN a ELSE b
MathMin(a, b) == IF a.nan \/ b.nan THEN NaN ELSE IF a.n <= b.n THEN a ELSE b

\* the comparisons >= and <=: false when an operand is NaN
geq(a, b) == ~a.nan /\ ~b.nan /\ a.n >= b.n
leq(a, b) == ~a.nan /\ ~b.nan /\ a.n <= b.n

\* Math.round(c / t * k) for 0 <= c <= t and t > 0
roundRatio(c, t, k) == (2 * c * k + t) \div (2 * t)

\* the pieces written to the stream
ClearLine == [kind |-> "\\r\\x1b[K"]
NewLine == [kind |-> "\\n"]

\* the bar text of draw(), lines 152-186, without the speed and ETA strings,
\* which depend on the clock; String.prototype.repeat(NaN) is the empty string
barText(b) ==
    IF b.current.nan
    THEN [kind |-> "bar", filled |-> 0, empty |-> 0, percentage |-> NaN,
          current |-> b.current, total |-> b.total]
    ELSE [kind |-> "bar",
          filled |-> roundRatio(b.current.n, b.total, DefaultBarLength),
          empty |-> DefaultBarLength - roundRatio(b.current.n, b.total, DefaultBarLength),
          percentage |-> Num(roundRatio(b.current.n, b.total, 100)),
          current |-> b.current, total |-> b.total]

\* faulty variant: draw() does not look at the kind of the stream
drawAlways(b) ==
    IF b.total <= 0 THEN <<>> ELSE <<ClearLine, barText(b)>>

\* draw(), lines 149-190, as the pieces it writes: nothing unless the stream is
\* a terminal and total > 0, else clearLine (lines 61-65) and the bar text
draw(b) ==
    IF ~b.streamIsTTY \/ b.total <= 0 THEN <<>> ELSE <<ClearLine, barText(b)>>

\* update(value, totalBytesDownloaded), lines 130-144: the new fields and the
\* pieces written; a.hasBytes is `totalBytesDownloaded !== undefined`
update(b, a) ==
    IF b.isComplete THEN [bar |-> b, out |-> <<>>]
    ELSE LET nb == [b EXCEPT
                      !.current = MathMin(MathMax(Num(0), a.value), Num(b.total)),
                      !.totalBytesDownloaded = IF a.hasBytes THEN a.bytes ELSE @]
         IN [bar |-> nb, out |-> draw(nb)]

\* faulty variant: complete() does not look at isComplete
completeAgain(b) ==
    IF ~b.streamIsTTY THEN [bar |-> b, out |-> <<>>]
    ELSE LET nb == [b EXCEPT !.current = Num(b.total)]
         IN [bar |-> [nb EXCEPT !.isComplete = TRUE], out |-> draw(nb) \o <<NewLine>>]

\* complete(), lines 196-204
complete(b) ==
    IF b.isComplete \/ ~b.streamIsTTY THEN [bar |-> b, out |-> <<>>]
    ELSE LET nb == [b EXCEPT !.current = Num(b.total)]
         IN [bar |-> [nb EXCEPT !.isComplete = TRUE], out |-> draw(nb) \o <<NewLine>>]

\* clear(), lines 209-213
clear(b) ==
    [bar |-> b,
     out |-> IF b.streamIsTTY /\ ~b.isComplete THEN <<ClearLine>> ELSE <<>>]

\* the arguments update() is called with
UpdateArgs ==
    {[value |-> v, hasBytes |-> FALSE, bytes |-> 0] :
        v \in {Num(n) : n \in -1..MaxTotal + 1} \cup {NaN}}
    \cup {[value |-> Num(n), hasBytes |-> TRUE, bytes |-> n * 100] : n \in 0..MaxTotal}

\* `new ProgressBar(total, 40, stream)`, lines 114-123
InitProgress ==
    /\ mode = "progress"
    /\ concurrency \in 1..MaxConcurrency
    /\ LimiterInit
    /\ DownloadIdle
    /\ InstallIdle
    /\ CreateIdle /\ ScoreIdle /\ UninstallIdle /\ InsertIdle /\ EmbedIdle
    /\ \E total \in 0..MaxTotal, tty \in BOOLEAN :
          bar = [total |-> total, current |-> Num(0), totalBytesDownloaded |-> 0,
                 isComplete |-> FALSE, streamIsTTY |-> tty]
    /\ stream = <<>>
    /\ barCalls = <<>>
    /\ barBefore = bar
    /\ streamBefore = <<>>

\* the arguments of a call without arguments
NoArgs == [value |-> Num(0), hasBytes |-> FALSE, bytes |-> 0]

\* a method of the bar is called with arguments a and returns r
BarCall(name, a, r) ==
    /\ mode = "progress"
    /\ Len(barCalls) < MaxBarCalls
    /\ bar' = r.bar
    /\ stream' = stream \o r.out
    /\ barCalls' = Append(barCalls, [name |-> name, args |-> a])
    /\ barBefore' = bar
    /\ streamBefore' = stream
    /\ UNCHANGED <<mode, limiterVars, downloadVars, installVars, ctor, scoring,
                   uninst, ins, emb>>

Update == \E a \in UpdateArgs : BarCall("update", a, update(bar, a))
Complete == BarCall("complete", NoArgs, complete(bar))
Clear == BarCall("clear", NoArgs, clear(bar))

NextProgress == Update \/ Complete \/ Clear

SpecProgress == InitProgress /\ [][NextProgress]_vars

-----------------------------------------------------------------------------
(* Properties of the ProgressBar *)

\* the names of the methods called so far, in order
CallNames == [k \in 1..Len(barCalls) |-> barCalls[k].name]

\* the last call was update()
Updated == barCalls # <<>> /\ barCalls[Len(barCalls)].name = "update"

\* no update() so far was given NaN
NoNaNGiven ==
    \A k \in 1..Len(barCalls) :
        barCalls[k].name = "update" => ~barCalls[k].args.value.nan

\* C22 as stated: after any sequence of update() and complete() calls on a bar
\* with total >= 0 the stored count satisfies 0 <= current <= total.
C22_Original ==
    leq(Num(0), bar.current) /\ leq(bar.current, Num(bar.total))

\* C22: after any sequence of update() and complete() calls none of which was
\* given NaN, on a bar with total >= 0, the stored count satisfies
\* 0 <= current <= total, for negative values and values above total too; and
\* the count is a number unless an update() was given NaN.
C22_CountInRange ==
    NoNaNGiven => (leq(Num(0), bar.current) /\ leq(bar.current, Num(bar.total)))

\* a value below 0 and a value above total were given
C22_Witness ==
    /\ NoNaNGiven
    /\ bar.total = 2
    /\ Len(barCalls) >= 2
    /\ barCalls[1] = [name |-> "update", args |-> [value |-> Num(-1), hasBytes |-> FALSE, bytes |-> 0]]
    /\ barCalls[2] = [name |-> "update", args |-> [value |-> Num(3), hasBytes |-> FALSE, bytes |-> 0]]
    /\ bar.current = Num(2)

\* C23: no update() call lowers the stored count or the stored byte total
\* below the value it held before the call (stated for calls with numbers; with
\* NaN the comparison has no meaning).
C23_CountersMonotonic ==
    (Updated /\ NoNaNGiven) =>
        /\ geq(bar.current, barBefore.current)
        /\ bar.totalBytesDownloaded >= barBefore.totalBytesDownloaded

\* C24: when the stream is not a terminal, no sequence of update(), complete()
\* and clear() calls writes anything to it.
C24_SilentWithoutTerminal ==
    ~bar.streamIsTTY => stream = <<>>

\* all three methods were called on a bar whose stream is not a terminal
C24_Witness ==
    /\ ~bar.streamIsTTY
    /\ bar.total > 0
    /\ {"update", "complete", "clear"} \subseteq Range(CallNames)
    /\ bar.current = Num(1)
    /\ stream = <<>>

\* C25: complete() is idempotent: in every state a second complete() returns
\* the bar of the first and writes nothing, and whenever complete() was called
\* twice in a row the second call changed neither the bar nor the stream.
C25_CompleteIdempotent ==
    /\ complete(complete(bar).bar) = [bar |-> complete(bar).bar, out |-> <<>>]
    /\ (Len(barCalls) >= 2
          /\ barCalls[Len(barCalls)].name = "complete"
          /\ barCalls[Len(barCalls) - 1].name = "complete") =>
             (bar = barBefore /\ stream = streamBefore)

\* a bar on a terminal, half done, completed twice: one final bar, one newline
C25_Witness ==
    /\ bar.streamIsTTY
    /\ bar.total = 2
    /\ CallNames = <<"update", "complete", "complete">>
    /\ bar.isComplete
    /\ Len(stream) = 5
    /\ stream[4].current = Num(2)
    /\ stream[5] = NewLine

-----------------------------------------------------------------------------
(* limiter.ts: the argument check of createLimiter, lines 18-21 *)

\* a JavaScript number given as concurrency: halves / 2 when finite
Number(k, halves) == [kind |-> k, halves |-> halves]

\* -1, -0.5, 0, 0.5, 1, 1.5, ..., MaxConcurrency, and the three other numbers
ConcurrencyArgs ==
    {Number("finite", h) : h \in -2..2 * MaxConcurrency}
    \cup {Number(k, 0) : k \in {"NaN", "Infinity", "-Infinity"}}

\* Number.isInteger(x)
isInteger(x) == x.kind = "finite" /\ x.halves % 2 = 0

\* x < 1
lessThanOne(x) == x.kind = "-Infinity" \/ (x.kind = "finite" /\ x.halves < 2)

\* faulty variant: only the sign of the argument is checked
isInvalidSignOnly(x) == lessThanOne(x)

\* `!Number.isInteger(concurrency) || concurrency < 1`, line 19
isInvalid(x) == ~isInteger(x) \/ lessThanOne(x)

\* createLimiter(concurrency) has been called and stands at line 19; no limiter
\* exists yet
InitCreate ==
    /\ mode = "create"
    /\ concurrency = 0
    /\ LimiterInit
    /\ DownloadIdle
    /\ InstallIdle
    /\ ProgressIdle /\ ScoreIdle /\ UninstallIdle /\ InsertIdle /\ EmbedIdle
    /\ \E x \in ConcurrencyArgs : ctor = [pc |-> "called", arg |-> x]

\* lines 19-58: the TypeError is thrown, or the closure state is created and
\* the limit function returned
createLimiter ==
    /\ mode = "create"
    /\ ctor.pc = "called"
    /\ IF isInvalid(ctor.arg)
       THEN /\ ctor' = [ctor EXCEPT !.pc = "threw TypeError"]
            /\ UNCHANGED <<mode, concurrency>>
       ELSE /\ ctor' = [ctor EXCEPT !.pc = "returned"]
            /\ concurrency' = ctor.arg.halves \div 2
            /\ mode' = "limiter"
    /\ UNCHANGED <<activeCount, queue, submitted, kind, taskState, outer, startOrder,
                   everQueued, taskFailed, downloadVars, installVars, progressVars,
                   scoring, uninst, ins, emb>>

NextCreate == createLimiter \/ Next

SpecCreate == InitCreate /\ [][NextCreate]_vars

\* a positive integer
PositiveInteger(x) == x.kind = "finite" /\ x.halves % 2 = 0 /\ x.halves >= 2

\* C26: createLimiter fails at construction with a TypeError, returning no
\* limiter and running no task, whenever concurrency is not a positive integer
\* (0, negative, fractional, NaN, Infinity), and returns a limiter with that
\* concurrency for every positive integer.
C26_ConstructionCheck ==
    /\ ctor.pc # "called" =>
          (ctor.pc = "returned" <=> PositiveInteger(ctor.arg))
    /\ ctor.pc = "threw TypeError" =>
          /\ mode = "create"
          /\ concurrency = 0
          /\ submitted = 0
          /\ startOrder = <<>>
    /\ ctor.pc = "returned" =>
          /\ mode = "limiter"
          /\ 2 * concurrency = ctor.arg.halves

\* a fractional concurrency above 1 is refused
C26_Witness ==
    /\ ctor.pc = "threw TypeError"
    /\ ctor.arg = Number("finite", 3)

-----------------------------------------------------------------------------
(* libraryUtil.ts: getFileScore, lines 167-205 *)

MaxDepth == 2

\* A relative path is its directory segments and its file name, the file name
\* being its parts between the dots; a library name is its parts between the
\* dots. No segment of the model contains a slash, a backslash or a dot.
Path(dirs, file) == [dirs |-> dirs, file |-> file]

\* `relativeFilePath.toLowerCase().replace(/\\/g, '/')` and
\* `path.basename(relativeFilePath).toLowerCase()`, lines 169-170
lowerPath(p) ==
    Path([k \in 1..Len(p.dirs) |-> toLowerCase(p.dirs[k])],
         [k \in 1..Len(p.file) |-> toLowerCase(p.file[k])])

lowerName(lib) == [k \in 1..Len(lib) |-> toLowerCase(lib[k])]

\* lowerRelativePath.includes('/' + seg + '/'): seg is a directory that is not
\* the first segment
includesDir(p, seg) == \E k \in 2..Len(p.dirs) : p.dirs[k] = seg

\* lowerRelativePath.startsWith(seg + '/')
startsWithDir(p, seg) == Len(p.dirs) >= 1 /\ p.dirs[1] = seg

\* the segments of the model that start with `word`
startsWithWord(seg, word) ==
    \/ seg = word
    \/ word = "example" /\ seg = "examples"

\* lowerRelativePath.includes('/' + word): a segment other than the first, the
\* file name included, starts with word
includesSlashWord(p, word) ==
    \/ \E k \in 2..Len(p.dirs) : startsWithWord(p.dirs[k], word)
    \/ Len(p.dirs) >= 1 /\ startsWithWord(p.file[1], word)

\* lowerFileName.endsWith('.' + a + '.' + b) and lowerFileName.endsWith('.' + a)
endsWith2(f, a, b) == Len(f) >= 3 /\ f[Len(f) - 1] = a /\ f[Len(f)] = b
endsWith1(f, a) == Len(f) >= 2 /\ f[Len(f)] = a

\* lowerFileName.includes(word + '.'): a part before the last ends with word
includesWordDot(f, word) == \E k \in 1..Len(f) - 1 : f[k] = word

\* lowerFileName.includes('.min.')
includesDotMinDot(f) == \E k \in 2..Len(f) - 1 : f[k] = "min"

\* lowerFileName.includes(word)
includesWord(f, word) == \E k \in 1..Len(f) : f[k] = word

inDistDir(p) ==
    startsWithDir(p, "dist") \/ startsWithDir(p, "build") \/ startsWithDir(p, "lib")

\* lines 173-176: what is subtracted for the place of the file
penalty(p) ==
    (IF includesDir(p, "src") \/ startsWithDir(p, "src") THEN 20 ELSE 0)
    + (IF includesDir(p, "test") \/ includesDir(p, "spec") \/ includesDir(p, "demo")
       THEN 15 ELSE 0)
    + (IF includesDir(p, "docs") \/ startsWithDir(p, "docs") THEN 10 ELSE 0)
    + (IF includesSlashWord(p, "example") \/ includesSlashWord(p, "sample")
       THEN 10 ELSE 0)

\* lines 177-178: what is subtracted for the kind of the file
kindPenalty(f) ==
    (IF endsWith2(f, "esm", "js") \/ endsWith1(f, "mjs") THEN 5 ELSE 0)
    + (IF endsWith2(f, "bundle", "js") \/ includesWordDot(f, "bundle") THEN 2 ELSE 0)

\* lines 180-189: what is added for a main file of the library
mainBonus(p, name) ==
    IF p.file \in {name \o <<"min", "js">>, <<"index", "min", "js">>, <<"main", "min", "js">>}
    THEN (IF p.dirs = <<>> THEN 50 ELSE IF inDistDir(p) THEN 45 ELSE 30)
    ELSE IF p.file \in {name \o <<"js">>, <<"index", "js">>, <<"main", "js">>}
    THEN (IF p.dirs = <<>> THEN 40 ELSE IF inDistDir(p) THEN 35 ELSE 25)
    ELSE 0

\* lines 191-202: the other additions
otherBonus(p) ==
    (IF includesDotMinDot(p.file) THEN 10 ELSE 0)
    + (IF inDistDir(p) THEN 8 ELSE 0)
    + (IF endsWith1(p.file, "js") \/ endsWith1(p.file, "css") THEN 5 ELSE 0)
    + (IF includesWord(p.file, "core")
          /\ (endsWith1(p.file, "js") \/ endsWith1(p.file, "css")) THEN 3 ELSE 0)
    + (IF includesWord(p.file, "all") /\ endsWith1(p.file, "css") THEN 3 ELSE 0)

Max(a, b) == IF a >= b THEN a ELSE b

\* getFileScore(relativeFilePath, libraryName)
getFileScore(relativeFilePath, libraryName) ==
    LET p == lowerPath(relativeFilePath)
        name == lowerName(libraryName)
    IN Max(0, mainBonus(p, name) + otherBonus(p) - penalty(p) - kindPenalty(p.file))

\* the directories, library names and file names of the model
Dirs == {"dist", "src", "Test", "test", "docs", "examples", "a"}

LibraryNames == {<<"x">>, <<"X", "esm">>, <<"core">>}

FileNames(lib) ==
    {lib \o <<"min", "js">>, lib \o <<"js">>, lib \o <<"spec", "js">>,
     <<"index", "js">>, <<"example", "js">>, <<"x", "bundle", "js">>,
     <<"all", "css">>, <<"x", "mjs">>, <<"readme", "md">>}

DirSeqs == UNION {[1..n -> Dirs] : n \in 0..MaxDepth}

\* getFileScore has been called
InitScore ==
    /\ mode = "score"
    /\ concurrency \in 1..MaxConcurrency
    /\ LimiterInit
    /\ DownloadIdle
    /\ InstallIdle
    /\ ProgressIdle /\ CreateIdle /\ UninstallIdle /\ InsertIdle /\ EmbedIdle
    /\ \E lib \in LibraryNames, dirs \in DirSeqs :
          \E file \in FileNames(lib) :
             scoring = [pc |-> "called", relativeFilePath |-> Path(dirs, file),
                        libraryName |-> lib, score |-> 0]

\* it returns
ReturnScore ==
    /\ mode = "score"
    /\ scoring.pc = "called"
    /\ scoring' = [scoring EXCEPT
                      !.pc = "returned",
                      !.score = getFileScore(scoring.relativeFilePath, scoring.libraryName)]
    /\ UNCHANGED <<mode, limiterVars, downloadVars, installVars, progressVars, ctor,
                   uninst, ins, emb>>

NextScore == ReturnScore

SpecScore == InitScore /\ [][NextScore]_vars

\* C29: canonical distribution files rank above source files, which rank above
\* test files: for the library L of the call, getFileScore("dist/L.min.js", L)
\* > getFileScore("src/L.js", L) > getFileScore("test/L.spec.js", L); and the
\* score returned is never negative.
C29_DistAboveSrcAboveTest ==
    scoring.pc = "returned" =>
        LET L == scoring.libraryName
        IN /\ getFileScore(Path(<<"dist">>, L \o <<"min", "js">>), L)
                > getFileScore(Path(<<"src">>, L \o <<"js">>), L)
           /\ getFileScore(Path(<<"src">>, L \o <<"js">>), L)
                > getFileScore(Path(<<"test">>, L \o <<"spec", "js">>), L)
           /\ scoring.score >= 0

\* C30: the penalty for a file under a src, test, spec, demo, docs, example or
\* sample segment is subtracted wherever the segment occurs, the first segment
\* included: what is subtracted for a file in a directory is what is
\* subtracted for the same path below one more directory ("test/x.js" is
\* penalised just as "a/test/x.js" is).
C30_PenaltyAtFirstSegment ==
    scoring.pc = "returned" =>
        LET p == lowerPath(scoring.relativeFilePath)
        IN Len(p.dirs) >= 1 =>
              penalty(p) = penalty(Path(<<"a">> \o p.dirs, p.file))

-----------------------------------------------------------------------------
(* part_001: the uninstall action, lines 334-445 *)

MaxEntries == 2
MaxNames == 2

\* the names an entry of cdn_modules can have, and what can be typed
EntryNames == {"a", "A", "b"}

ArgNames == {"/", "a", "A", "x"}

\* an entry of cdn_modules: a library directory or a stray file
Dirent(name, isDir) == [name |-> name, isDir |-> isDir]

\* a line of output of the uninstall action: level, text, library named
Report(level, text, library) == [level |-> level, text |-> text, library |-> library]

NoLibrary == ""

\* faulty variant: the directory is taken to exist
existsSyncAlways(root) == TRUE

\* fs.existsSync(cdnModulesDir), lines 340 and 423
existsSync(root) == root # "missing"

\* fs.readdirSync(cdnModulesDir, ...) throws unless cdn_modules is a directory
readdirThrows(root) == root # "dir"

\* readdirSync(...).filter(dirent => dirent.isDirectory()).map(dirent => dirent.name)
directoryNames(entries) ==
    LET dirs == SelectSeq(entries, LAMBDA e : e.isDir)
    IN [k \in 1..Len(dirs) |-> dirs[k].name]

\* fs.rmSync(libraryDir, {recursive: true, force: true}) that does not throw
rmSync(entries, library) == SelectSeq(entries, LAMBDA e : e.name # library)

\* the locals and the file system while the action runs
say(S, line) == [S EXCEPT !.log = Append(@, line)]

\* lines 354-361 and 406-413: remove one library directory, or report why not
removeLibrary(S, library, failText) ==
    IF library \in S.rmFails
    THEN [say(S, Report("error", failText, library)) EXCEPT !.failedCount = @ + 1]
    ELSE [say(S, Report("success", "Successfully uninstalled library", library)) EXCEPT
             !.entries = rmSync(@, library),
             !.removed = @ \cup {library},
             !.uninstalledCount = @ + 1]

RECURSIVE removeAll(_, _)
\* libraries.forEach, lines 352-362
removeAll(S, libraries) ==
    IF libraries = <<>> THEN S
    ELSE removeAll(removeLibrary(S, Head(libraries), "Failed to remove directory"),
                   Tail(libraries))

\* installedLookup.get(key), the Map built at line 371: of the directories
\* whose lower-case name is key, the last one listed
installedLookup(allInstalled, key) ==
    LET hits == SelectSeq(allInstalled, LAMBDA n : toLowerCase(n) = key)
    IN IF hits = <<>> THEN <<>> ELSE <<hits[Len(hits)]>>

\* lines 379-389: the directory to remove for a name, if any
resolveLibrary(S, allInstalled, name) ==
    LET found == installedLookup(allInstalled, toLowerCase(name))
    IN IF found # <<>> THEN found
       ELSE IF \E k \in 1..Len(S.entries) : S.entries[k] = Dirent(name, TRUE)
            THEN <<name>>
       ELSE <<>>

\* the body of names.forEach for one name, lines 373-414
uninstallOne(S, allInstalled, name) ==
    LET lib == resolveLibrary(S, allInstalled, name)
    IN IF name = "/"
       THEN say(S, Report("warning", "Ignoring '/' argument", NoLibrary))
       ELSE IF lib = <<>>
       THEN [say(S, Report("warning", "is not installed or not found. Skipping.", name))
                EXCEPT !.failedCount = @ + 1]
       ELSE IF ~\E k \in 1..Len(S.entries) : S.entries[k].name = lib[1]
       THEN [S EXCEPT !.threw = TRUE]         \* fs.statSync throws ENOENT, line 399
       ELSE IF Dirent(lib[1], FALSE) \in {S.entries[k] : k \in 1..Len(S.entries)}
       THEN [say(S, Report("error", "exists but is not a directory", lib[1]))
                EXCEPT !.failedCount = @ + 1]
       ELSE removeLibrary(S, lib[1], "Failed to uninstall library")

RECURSIVE uninstallNamed(_, _, _)
\* names.forEach, lines 373-415
uninstallNamed(S, allInstalled, names) ==
    IF names = <<>> \/ S.threw THEN S
    ELSE uninstallNamed(uninstallOne(S, allInstalled, Head(names)), allInstalled,
                        Tail(names))

\* lines 423-430: an empty cdn_modules is removed, unless rmdirSync throws
removeEmptyRoot(S) ==
    IF existsSync(S.root) /\ S.entries = <<>>
    THEN (IF S.rmdirFails
          THEN say(S, Report("warning", "Could not remove cdn_modules directory", NoLibrary))
          ELSE [say(S, Report("info", "Removed empty cdn_modules directory.", NoLibrary))
                   EXCEPT !.root = "missing"])
    ELSE S

\* lines 435-445: the closing line
summary(S) ==
    LET all == S.names = <<"/">>
    IN IF S.uninstalledCount > 0 /\ S.failedCount = 0
       THEN say(S, Report("success", "Finished uninstalling", NoLibrary))
       ELSE IF S.uninstalledCount > 0 /\ S.failedCount > 0
       THEN say(S, Report("warning", "Completed uninstall process", NoLibrary))
       ELSE IF S.uninstalledCount = 0 /\ S.failedCount > 0
       THEN say(S, Report("error", "Uninstall process completed, but failed", NoLibrary))
       ELSE IF ~all
       THEN say(S, Report("info", "No matching installed libraries found", NoLibrary))
       ELSE say(S, Report("info", "No libraries were present to uninstall.", NoLibrary))

returns(S) == [S EXCEPT !.pc = "returned"]

throws(S) == [S EXCEPT !.pc = "threw", !.threw = TRUE]

\* the action callback, lines 334-445
uninstall(S) ==
    IF ~existsSync(S.root)
    THEN returns(say(S, Report("error", "No libraries are installed", NoLibrary)))
    ELSE IF S.names = <<>>
    THEN returns(say(say(S, Report("error", "No library names specified", NoLibrary)),
                     Report("help", "outputHelp", NoLibrary)))
    ELSE IF readdirThrows(S.root)
    THEN throws(S)
    ELSE LET libraries == directoryNames(S.entries)
             done ==
                 IF S.names = <<"/">>
                 THEN (IF libraries = <<>>
                       THEN say(S, Report("info", "No libraries found within cdn_modules",
                                          NoLibrary))
                       ELSE removeAll(say(S, Report("info", "Uninstalling all libraries",
                                                    NoLibrary)),
                                      libraries))
                 ELSE uninstallNamed(say(S, Report("info", "Attempting to uninstall",
                                                   NoLibrary)),
                                     libraries, S.names)
         IN IF done.threw THEN throws(done)
            ELSE returns(summary(removeEmptyRoot(done)))

\* the sequences without repetition of at most n entries
EntryLists(n) ==
    {e \in UNION {[1..k -> [name : EntryNames, isDir : BOOLEAN]] : k \in 0..n} :
        \A i, j \in 1..Len(e) : i # j => e[i].name # e[j].name}

NameLists(n) == UNION {[1..k -> ArgNames] : k \in 0..n}

\* `cdn uninstall names...` is run in a working directory where cdn_modules
\* is missing, is a file, or is a directory with some entries
InitUninstall ==
    /\ mode = "uninstall"
    /\ concurrency \in 1..MaxConcurrency
    /\ LimiterInit
    /\ DownloadIdle
    /\ InstallIdle
    /\ ProgressIdle /\ CreateIdle /\ ScoreIdle /\ InsertIdle /\ EmbedIdle
    /\ \E root \in {"missing", "file", "dir"}, names \in NameLists(MaxNames),
          rmFails \in SUBSET EntryNames, rmdirFails \in BOOLEAN :
          \E entries \in (IF root = "dir" THEN EntryLists(MaxEntries) ELSE {<<>>}) :
             uninst = [pc |-> "called", names |-> names,
                       root0 |-> root, entries0 |-> entries,
                       root |-> root, entries |-> entries,
                       rmFails |-> rmFails, rmdirFails |-> rmdirFails,
                       log |-> <<>>, uninstalledCount |-> 0, failedCount |-> 0,
                       removed |-> {}, threw |-> FALSE]

\* the callback runs to its end
Uninstall ==
    /\ mode = "uninstall"
    /\ uninst.pc = "called"
    /\ uninst' = uninstall(uninst)
    /\ UNCHANGED <<mode, limiterVars, downloadVars, installVars, progressVars, ctor,
                   scoring, ins, emb>>

NextUninstall == Uninstall

SpecUninstall == InitUninstall /\ [][NextUninstall]_vars

Texts(lines) == {lines[k].text : k \in 1..Len(lines)}

Levels(lines) == {lines[k].level : k \in 1..Len(lines)}

\* `uninstall /` where cdn_modules is missing, or is a directory that holds no
\* directory
NothingInstalled ==
    /\ uninst.names = <<"/">>
    /\ \/ uninst.root0 = "missing"
       \/ uninst.root0 = "dir" /\ directoryNames(uninst.entries0) = <<>>

\* C28: `uninstall /` where cdn_modules does not exist, or exists and holds no
\* library directory, returns without throwing, counts and reports no library
\* as removed, and removes no library directory (the entries of cdn_modules
\* are as they were).
C28_UninstallAllOfNothing ==
    (uninst.pc \notin {"idle", "called"} /\ NothingInstalled) =>
        /\ uninst.pc = "returned"
        /\ uninst.uninstalledCount = 0
        /\ uninst.failedCount = 0
        /\ uninst.removed = {}
        /\ uninst.entries = uninst.entries0
        /\ "success" \notin Levels(uninst.log)
        /\ IF uninst.root0 = "missing"
           THEN Texts(uninst.log) = {"No libraries are installed"}
           ELSE {"No libraries found within cdn_modules",
                 "No libraries were present to uninstall."} \subseteq Texts(uninst.log)

\* cdn_modules was an empty directory: it is gone, and nothing was thrown
C28_Witness ==
    /\ uninst.pc = "returned"
    /\ NothingInstalled
    /\ uninst.root0 = "dir"
    /\ uninst.entries0 = <<>>
    /\ uninst.root = "missing"

\* the names given other than "/"
NamedLibraries == SelectSeq(uninst.names, LAMBDA n : n # "/")

\* the names given that were library directories of cdn_modules
NamedInstalled ==
    {uninst.names[k] : k \in 1..Len(uninst.names)}
        \cap {uninst.entries0[k].name : k \in {j \in 1..Len(uninst.entries0) :
                                                  uninst.entries0[j].isDir}}

\* C39: for any list of names given to `uninstall` in a directory whose
\* cdn_modules is a directory (names not installed, names differing in case
\* only, a library named more than once), the command returns without
\* throwing, uninstalledCount + failedCount is the number of names other than
\* "/", every named library directory that was installed (and that rmSync can
\* remove) is gone, and cdn_modules is removed if it is left empty (and
\* rmdirSync does not fail).
C39_UninstallNamed ==
    (/\ uninst.pc \notin {"idle", "called"}
     /\ uninst.root0 = "dir"
     /\ uninst.names # <<>>
     /\ uninst.names # <<"/">>) =>
        /\ uninst.pc = "returned"
        /\ uninst.uninstalledCount + uninst.failedCount = Len(NamedLibraries)
        /\ \A n \in NamedInstalled \ uninst.rmFails :
              \A k \in 1..Len(uninst.entries) : uninst.entries[k].name # n
        /\ (uninst.entries = <<>> /\ ~uninst.rmdirFails) => uninst.root = "missing"

-----------------------------------------------------------------------------
(* part_001: the insert action, lines 619-812 *)

MaxRuns == 3

\* an element of the document that refers to a file: a script by src, a link
\* by href; the reference is the text of the attribute, here the library
\* directory and the relative path of `/cdn_modules/<library>/<path>`
Tag(el, lib, file) == [el |-> el, lib |-> lib, file |-> file]

\* the document of the HTML file: the elements of head and of body in order,
\* and whether the text is in the layout prettier gives it
Doc(head, body, formatted) == [head |-> head, body |-> body, formatted |-> formatted]

\* path.extname(fileToInsertRelativePath).toLowerCase(), line 736, without its dot
extname(p) == IF Len(p.file) >= 2 THEN toLowerCase(p.file[Len(p.file)]) ELSE ""

\* the file filter of line 676
isAsset(p) ==
    (endsWith1(p.file, "js") \/ endsWith1(p.file, "css")) /\ ~endsWith1(p.file, "map")

\* findFilesRecursive(actualLibraryDir, actualLibraryDir, filter) that returns
findFilesRecursive(files) == SelectSeq(files, isAsset)

\* lines 646-667: the installed directory the library name stands for, if any:
\* the directory of that very name, else the first one equal to it but for case
findLibrary(dirs, libraryName) ==
    LET same == SelectSeq(dirs, LAMBDA d : d = libraryName)
        match == SelectSeq(dirs, LAMBDA d : toLowerCase(d) = toLowerCase(libraryName))
    IN IF same # <<>> THEN <<libraryName>>
       ELSE IF match # <<>> THEN <<match[1]>>
       ELSE <<>>

\* lines 712-718: the first of the files of the highest score (the sort is
\* stable and descending)
bestFile(files, lib) ==
    LET score(k) == getFileScore(files[k], <<lib>>)   \* a directory name without dots
        best == CHOOSE k \in 1..Len(files) :
                   /\ \A j \in 1..Len(files) : score(j) <= score(k)
                   /\ \A j \in 1..(k - 1) : score(j) < score(k)
    IN files[best]

\* lines 739-747: the element a file is inserted as
tagFor(lib, file) ==
    Tag(IF extname(file) = "css" THEN "link" ELSE "script", lib, file)

Elements(doc) == doc.head \o doc.body

\* $(selector) of line 763: the elements of the whole document of that name
\* whose src or href is the web path
matches(doc, tag) == SelectSeq(Elements(doc), LAMBDA e : e = tag)

\* faulty variant: only the target element is searched
tagExistsInTarget(doc, tag, targetLocation) ==
    \E k \in 1..Len(doc[targetLocation]) : doc[targetLocation][k] = tag

\* `$(selector).length > 0`, line 764
tagExists(doc, tag, targetLocation) == Len(matches(doc, tag)) > 0

\* targetElement.append(tag) followed by $.html(), lines 770-772: the text is
\* no longer in prettier's layout
append(doc, tag, targetLocation) ==
    [doc EXCEPT ![targetLocation] = Append(@, tag), !.formatted = FALSE]

\* prettier.format(rawHtmlOutput, ...) that resolves, line 777
format(doc) == [doc EXCEPT !.formatted = TRUE]

\* a run ends at a check that fails: the line, and the exit code 1
fail(I, text) ==
    [I EXCEPT !.pc = "ready", !.log = Append(@, Report("error", text, NoLibrary)),
              !.exitCode = 1]

\* the part of the callback from the determined file on, lines 729-774
insertFile(I, lib, file) ==
    LET tag == tagFor(lib, file)
        targetLocation == toLowerCase(I.location)
    IN IF extname(file) \notin {"css", "js"}
       THEN fail(I, "Unsupported file type for insertion")
       ELSE IF tagExists(I.doc, tag, targetLocation)
       THEN [I EXCEPT !.pc = "ready", !.tag = <<tag>>,
                      !.log = Append(@, Report("warning", "already exists. No changes made.",
                                               NoLibrary))]
       ELSE [I EXCEPT !.pc = "formatting", !.tag = <<tag>>,
                      !.pending = append(I.doc, tag, targetLocation)]

\* the callback up to `await prettier.format`, lines 619-777
insert(I) ==
    LET lib == findLibrary(I.dirs, I.libraryName)
        allPotentialFiles == findFilesRecursive(I.files)
    IN IF toLowerCase(I.location) \notin {"head", "body"}
       THEN fail(I, "Invalid location")
       ELSE IF I.html = "missing" THEN fail(I, "HTML file not found")
       ELSE IF I.html = "noaccess" THEN fail(I, "Cannot read/write HTML file")
       ELSE IF lib = <<>> THEN fail(I, "is not installed")
       ELSE IF I.scanThrows THEN fail(I, "Error scanning library directory")
       ELSE IF allPotentialFiles = <<>> THEN fail(I, "No suitable .js or .css files found")
       ELSE IF I.filename # <<>>
       THEN (IF \E k \in 1..Len(I.files) : I.files[k] = I.filename[1]
             THEN (IF \E k \in 1..Len(allPotentialFiles) :
                         allPotentialFiles[k] = I.filename[1]
                   THEN insertFile(I, lib[1], I.filename[1])
                   ELSE fail(I, "exists but is not a recognized JS/CSS file"))
             ELSE fail(I, "Specified file not found"))
       ELSE insertFile(I, lib[1], bestFile(allPotentialFiles, lib[1]))

\* the files of the installed library, in the order of the scan
FileLists ==
    {<<>>,
     <<Path(<<>>, <<"a", "js">>)>>,
     <<Path(<<"src">>, <<"a", "js">>), Path(<<"dist">>, <<"a", "min", "js">>),
       Path(<<>>, <<"all", "css">>)>>,
     <<Path(<<>>, <<"readme", "md">>), Path(<<>>, <<"all", "css">>)>>}

\* the optional file name argument
FilenameArgs ==
    {<<>>, <<Path(<<>>, <<"a", "js">>)>>, <<Path(<<>>, <<"readme", "md">>)>>,
     <<Path(<<>>, <<"all", "css">>)>>}

\* what head and body of the file hold before the first run
HeadsBefore == {<<>>, <<Tag("script", "a", Path(<<>>, <<"a", "js">>))>>}

BodiesBefore ==
    {<<>>, <<Tag("script", "a", Path(<<>>, <<"a", "js">>))>>,
     <<Tag("script", "A", Path(<<>>, <<"a", "js">>))>>,
     <<Tag("link", "a", Path(<<>>, <<"all", "css">>))>>}

\* `cdn insert` is about to be run, time after time with the same arguments
InitInsert ==
    /\ mode = "insert"
    /\ concurrency \in 1..MaxConcurrency
    /\ LimiterInit
    /\ DownloadIdle
    /\ InstallIdle
    /\ ProgressIdle /\ CreateIdle /\ ScoreIdle /\ UninstallIdle /\ EmbedIdle
    /\ \E libraryName \in {"a", "A"}, filename \in FilenameArgs,
          location \in {"head", "Body", "foot"}, html \in {"ok", "missing", "noaccess"},
          dirs \in {<<>>, <<"a">>, <<"A">>, <<"A", "a">>}, files \in FileLists,
          scanThrows \in BOOLEAN, head \in HeadsBefore, body \in BodiesBefore :
          ins = [pc |-> "ready", libraryName |-> libraryName, filename |-> filename,
                 location |-> location, html |-> html, dirs |-> dirs, files |-> files,
                 scanThrows |-> scanThrows,
                 doc0 |-> Doc(head, body, TRUE), doc |-> Doc(head, body, TRUE),
                 pending |-> Doc(<<>>, <<>>, TRUE), tag |-> <<>>,
                 runs |-> 0, writes |-> 0, log |-> <<>>, exitCode |-> 0]

\* a run starts and proceeds to its end or to `await prettier.format`
InsertRun ==
    /\ mode = "insert"
    /\ ins.pc = "ready"
    /\ ins.runs < MaxRuns
    /\ ins' = insert([ins EXCEPT !.runs = @ + 1, !.log = <<>>, !.exitCode = 0])
    /\ UNCHANGED <<mode, limiterVars, downloadVars, installVars, progressVars, ctor,
                   scoring, uninst, emb>>

\* lines 786-796: the file is written and the success reported, or
\* writeFileSync throws into the catch block of lines 799-807
writeBack(I, output, writeThrows) ==
    IF writeThrows
    THEN fail(I, "Failed to insert tag")
    ELSE [I EXCEPT !.pc = "ready", !.doc = output, !.writes = @ + 1,
                   !.log = Append(@, Report("success", "Successfully inserted tag",
                                            NoLibrary))]

\* prettier.format resolves, lines 777-783
FormatResolves ==
    /\ mode = "insert"
    /\ ins.pc = "formatting"
    /\ \E writeThrows \in BOOLEAN :
          ins' = writeBack(ins, format(ins.pending), writeThrows)
    /\ UNCHANGED <<mode, limiterVars, downloadVars, installVars, progressVars, ctor,
                   scoring, uninst, emb>>

\* prettier.format rejects, lines 784-790: the unformatted text is written
FormatRejects ==
    /\ mode = "insert"
    /\ ins.pc = "formatting"
    /\ \E writeThrows \in BOOLEAN :
          ins' = writeBack([ins EXCEPT !.log = Append(@, Report("warning",
                                "Could not format HTML output using prettier", NoLibrary))],
                           ins.pending, writeThrows)
    /\ UNCHANGED <<mode, limiterVars, downloadVars, installVars, progressVars, ctor,
                   scoring, uninst, emb>>

NextInsert == InsertRun \/ FormatResolves \/ FormatRejects

SpecInsert == InitInsert /\ [][NextInsert]_vars

\* how often the tag of the runs is in the document
TagCount(doc) == IF ins.tag = <<>> THEN 0 ELSE Len(matches(doc, ins.tag[1]))

\* the last run that ended found the tag or inserted it
RunSucceeded ==
    /\ ins.pc = "ready"
    /\ ins.runs >= 1
    /\ ins.log # <<>>
    /\ ins.log[Len(ins.log)].level \in {"success", "warning"}

\* C27: insert is idempotent: of the runs with the same arguments at most one
\* writes the file; once the tag is in the file no run changes the file; and
\* after a run that found or inserted the tag the file holds it exactly once,
\* unless it held it several times before the first run (it holds it as
\* often as before the first run, if it held it then).
C27_InsertIdempotent ==
    /\ [](ins.pc # "idle" =>
             /\ ins.writes <= 1
             /\ TagCount(ins.doc) = (IF TagCount(ins.doc0) > 0 THEN TagCount(ins.doc0)
                                                                ELSE ins.writes)
             /\ (RunSucceeded /\ TagCount(ins.doc0) <= 1 => TagCount(ins.doc) = 1))
    /\ [][(ins.pc # "idle" /\ TagCount(ins.doc) >= 1) => ins'.doc = ins.doc]_vars

\* the second run finds the tag that the first run wrote and changes nothing
C27_Witness ==
    /\ ins.runs = 2
    /\ RunSucceeded
    /\ ins.writes = 1
    /\ TagCount(ins.doc0) = 0
    /\ TagCount(ins.doc) = 1
    /\ ins.log[Len(ins.log)].level = "warning"

-----------------------------------------------------------------------------
(* Further properties of the limiter *)

\* the tasks that run after the step
RunningNext == {j \in Tasks : taskState'[j] = "running"}

\* the closure state at the moment taskWrapper calls resolve or reject for
\* task i (lines 41, 43), the finally block not yet entered
atSettle(i, r) == settleOuter(LimiterState, i, r)

\* C31 as stated: when the promise of a running task is resolved or rejected,
\* activeCount has been decremented and the next queued task has been started
\* before.
C31_Original ==
    [][\A i \in Tasks :
          (taskState[i] = "running" /\ outer[i] = "pending" /\ outer'[i] # "pending") =>
             /\ atSettle(i, outer'[i]).activeCount = activeCount - 1
             /\ queue # <<>> => Head(queue) \in Range(atSettle(i, outer'[i]).startOrder)]_vars

\* C31: a running task settles: in the same synchronous step its promise is
\* settled, activeCount is decremented for it and the head of the queue (if
\* any) is started, so whatever reacts to the promise finds the slot handed on:
\* after the step the task is settled, activeCount has gone down by one and up
\* by one for every task taken from the queue that still runs, and the queue
\* has lost its head.
C31_SettleThenDispatch ==
    [][\A i \in Tasks :
          (taskState[i] = "running" /\ outer[i] = "pending" /\ outer'[i] # "pending") =>
             /\ taskState'[i] = "settled"
             /\ activeCount' = activeCount - 1
                                 + Cardinality(RunningNext \cap Range(queue))
             /\ activeCount' = Cardinality(RunningNext)
             /\ queue # <<>> =>
                   /\ Head(queue) \in Range(startOrder') \ Range(startOrder)
                   /\ Head(queue) \notin Range(queue')
                   /\ Len(queue') < Len(queue)]_vars

\* a task has settled and a task that waited runs in its slot
C31_Witness ==
    \E i, j \in Tasks :
        /\ i \notin everQueued
        /\ outer[i] # "pending"
        /\ j \in everQueued
        /\ taskState[j] = "running"
        /\ activeCount = concurrency
        /\ queue # <<>>

\* C34: the limiter is work-conserving: between two synchronous steps, a task
\* waits in the queue only while every slot is taken (queue non-empty implies
\* activeCount = concurrency).
C34_WorkConserving ==
    queue # <<>> => activeCount = concurrency

\* a task still waits after a slot was freed and handed to the task before it
C34_Witness ==
    /\ queue # <<>>
    /\ activeCount = concurrency
    /\ \E i, j \in Tasks :
          /\ taskState[i] = "settled"
          /\ j \in everQueued
          /\ taskState[j] = "running"
          /\ j < Head(queue)

Settled == {i \in Tasks : taskState[i] = "settled"}

\* C35: activeCount is the number of tasks started and not yet settled: it is
\* never negative; every task is started at most once and only a started task
\* settles, so the count is the number of starts minus the number of
\* settlements; and it is 0 when every submitted task has settled and the
\* queue is empty.
C35_ActiveCountExact ==
    /\ activeCount >= 0
    /\ activeCount = Cardinality(Running)
    /\ \A a, b \in 1..Len(startOrder) : startOrder[a] = startOrder[b] => a = b
    /\ Settled \subseteq Range(startOrder)
    /\ activeCount = Len(startOrder) - Cardinality(Settled)
    /\ (queue = <<>> /\ \A i \in 1..submitted : taskState[i] = "settled")
          => activeCount = 0

\* every task has been submitted and has settled, one that waited was rejected
C35_Witness ==
    /\ submitted = MaxTasks
    /\ \A i \in Tasks : taskState[i] = "settled"
    /\ activeCount = 0
    /\ \E i \in everQueued : outer[i] = "rejected" /\ kind[i] = "async"

-----------------------------------------------------------------------------
(* Further properties of downloadWithRetry *)

\* C36: downloadWithRetry sleeps only between two consecutive attempts: while
\* an attempt is under way and when the call has returned or thrown, the
\* number of backoff sleeps is the number of attempts (GETs issued) minus one;
\* while it sleeps the two numbers are equal and the sleep is followed by a
\* further attempt, so there is no sleep after the last attempt.
C36_SleepsBetweenAttempts ==
    call.pc # "idle" =>
        /\ call.gets >= 1
        /\ call.pc \in {"get", "write", "fulfilled", "failed"} =>
              Len(call.sleeps) = call.gets - 1
        /\ call.pc = "sleep" =>
              /\ Len(call.sleeps) = call.gets
              /\ onSleepElapsed(call).pc = "get"

\* the second attempt, made after one sleep, fails for good with an error that
\* is not retried, although retries are left
C36_Witness ==
    /\ call.pc = "failed"
    /\ call.gets = 2
    /\ Len(call.sleeps) = 1
    /\ call.maxRetries = 2
    /\ ~isRetryable(call.errs[2])

-----------------------------------------------------------------------------
(* part_001: the --concurrency option of install, lines 29-40 *)

DefaultConcurrency == 5
FallbackConcurrency == 15

\* the text given to --concurrency: an optional minus sign, then decimal
\* digits (none, a small number, or so many that the number exceeds the
\* largest double), then what follows the digits ("" or ".5" or "x")
OptionText(sign, digits, n, rest) ==
    [sign |-> sign, digits |-> digits, n |-> n, rest |-> rest]

OptionTexts ==
    {OptionText(s, "none", 0, r) : s \in {"", "-"}, r \in {"", "x"}}
    \cup {OptionText(s, "some", n, r) :
             s \in {"", "-"}, n \in 0..MaxConcurrency + 1, r \in {"", ".5", "x"}}
    \cup {OptionText(s, "overflow", 0, "") : s \in {"", "-"}}

\* parseInt(value, 10), line 29: the digits after the sign, read up to the
\* first character that is no digit; NaN without a digit; an integer too
\* large for a double is Infinity
parseInt(value) ==
    CASE value.digits = "none" -> Number("NaN", 0)
      [] value.digits = "overflow" ->
            Number(IF value.sign = "-" THEN "-Infinity" ELSE "Infinity", 0)
      [] OTHER -> Number("finite", IF value.sign = "-" THEN -2 * value.n ELSE 2 * value.n)

\* x > 0
greaterThanZero(x) == x.kind = "Infinity" \/ (x.kind = "finite" /\ x.halves > 0)

\* options.concurrency: the parsed text, or the default of the option
optionValue(opt) ==
    IF opt.given THEN parseInt(opt.text) ELSE Number("finite", 2 * DefaultConcurrency)

\* `options.concurrency > 0 ? options.concurrency : 15`, line 35
concurrencyOf(opt) ==
    IF greaterThanZero(optionValue(opt)) THEN optionValue(opt)
    ELSE Number("finite", 2 * FallbackConcurrency)

\* install has been invoked with or without --concurrency
InitOption ==
    /\ mode = "option"
    /\ concurrency = 0
    /\ LimiterInit
    /\ DownloadIdle
    /\ InstallIdle
    /\ ProgressIdle /\ ScoreIdle /\ UninstallIdle /\ InsertIdle /\ EmbedIdle
    /\ \/ ctor = [pc |-> "install", arg |-> Number("NaN", 0),
                  option |-> [given |-> FALSE, text |-> OptionText("", "none", 0, "")]]
       \/ \E text \in OptionTexts :
             ctor = [pc |-> "install", arg |-> Number("NaN", 0),
                     option |-> [given |-> TRUE, text |-> text]]

\* lines 31-40: the action computes concurrency and calls createLimiter, which
\* is not inside its try block
installCallsCreateLimiter ==
    /\ mode = "option"
    /\ ctor.pc = "install"
    /\ ctor' = [ctor EXCEPT !.pc = "called", !.arg = concurrencyOf(ctor.option)]
    /\ mode' = "create"
    /\ UNCHANGED <<limiterVars, downloadVars, installVars, progressVars, scoring,
                   uninst, ins, emb>>

NextOption == installCallsCreateLimiter \/ NextCreate

SpecOption == InitOption /\ [][NextOption]_vars

\* C38: for every value of the --concurrency option the value install passes
\* to createLimiter is a positive integer, and createLimiter does not throw.
C38_ConcurrencyOptionSafe ==
    (mode # "option" /\ ctor.pc # "idle") =>
        /\ PositiveInteger(ctor.arg)
        /\ ctor.pc # "threw TypeError"

-----------------------------------------------------------------------------
(* Further properties of the install batch *)

\* the task whose URL an outcome names
taskOf(pos) == CHOOSE i \in 1..Len(urls) : urls[i].pos = pos

\* the size of the file of task i if it was downloaded, else 0
sizeOf(i) == IF downloads[i].pc = "fulfilled" THEN downloads[i].size ELSE 0

\* the bytes an outcome adds
bytesOf(o) == IF o.status = "fulfilled" THEN sizeOf(taskOf(o.url)) ELSE 0

\* the bytes of the first k outcomes
bytesUpTo(k) == SumSeq([j \in 1..k |-> bytesOf(fileOutcomes[j])])

\* the tasks whose task function has returned or thrown
Finalized == {i \in 1..Len(urls) : taskPc[i] \in {"returned", "thrown"}}

\* C32: the progress reporter is updated once per finalized outcome and never
\* per retry attempt: the counter is the number of outcomes and of finished
\* task functions; the bar (there is one unless --verbose is given) has been
\* updated once per outcome, the k-th update carrying the count k and the
\* sizes of the files downloaded among the first k outcomes; when the batch is
\* counted the count is the number of URLs and the bytes are the sizes of all
\* downloaded files.
C32_ProgressPerOutcome ==
    installPc \in {"awaitAll", "done"} =>
        /\ progressCounter = Len(fileOutcomes)
        /\ progressCounter = Cardinality(Finalized)
        /\ totalBytesDownloaded = bytesUpTo(Len(fileOutcomes))
        /\ Len(barCalls) = (IF verbose THEN 0 ELSE progressCounter)
        /\ \A k \in 1..Len(barCalls) :
              barCalls[k] = updateCall(k, bytesUpTo(k))
        /\ installPc = "done" =>
              /\ progressCounter = Len(urls)
              /\ totalBytesDownloaded = SumSeq([i \in 1..Len(urls) |-> sizeOf(i)])

\* three files, one retried and one lost, the first listed finishing last
C32_Witness ==
    /\ installPc = "done"
    /\ ~verbose
    /\ Len(barCalls) = 3
    /\ \E i, j \in 1..Len(urls) :
          /\ downloads[i].pc = "fulfilled" /\ Len(downloads[i].sleeps) >= 1
          /\ downloads[j].pc = "failed"
    /\ fileOutcomes[3].url = urls[1].pos
    /\ totalBytesDownloaded > 0

\* the tasks that are past their mkdir
PastMkdir == {i \in 1..Len(urls) : isParseable(urls[i].class) /\ taskPc[i] \notin {"none", "mkdir"}}

\* C33: directory creation during install is idempotent and race-safe: in
\* every interleaving, a task fails only because its URL cannot be parsed or
\* its download failed, never in its mkdir: whether the directory is new,
\* existed before the install or was created by a sibling task, the task goes
\* on to its download, the directory and the directories above it exist from
\* then on, and no directory that existed is lost.
C33_MkdirRaceSafe ==
    installPc \in {"awaitAll", "done"} =>
        /\ \A i \in 1..Len(urls) :
              taskPc[i] = "thrown" =>
                 (~isParseable(urls[i].class) \/ downloads[i].pc = "failed")
        /\ \A i \in PastMkdir :
              /\ downloads[i].pc # "idle"
              /\ prefixes(fileDir(urls[i])) \subseteq disk.now.dirs
        /\ disk.before.dirs \subseteq disk.now.dirs
        /\ disk.now.root

\* two tasks running side by side are both past the mkdir of the same nested
\* directory, whose parent existed before the install
C33_Witness ==
    /\ installPc = "awaitAll"
    /\ <<"css">> \in disk.before.dirs
    /\ \E i, j \in PastMkdir :
          /\ i # j
          /\ taskState[i] = "running" /\ taskState[j] = "running"
          /\ taskPc[i] = "download" /\ taskPc[j] = "download"
          /\ fileDir(urls[i]) = <<"css", "fonts">>
          /\ fileDir(urls[j]) = <<"css", "fonts">>

\* an install that ends before the batch starts
EndedBeforeBatch ==
    \/ installPc = "caught" /\ catalogError # NoError
    \/ installPc = "returned"

\* the page lists nothing but pages
OnlyPages == \A k \in 1..Len(catalog) : catalog[k].file.ext = "html"

\* --select-only names none of the listed files
NoneSelected ==
    /\ selectOnly.given
    /\ \A k \in 1..Len(catalog) : \A f \in 1..Len(selectOnly.files) :
          selectOnly.files[f] # catalog[k].file

\* C37: an install that ends before the batch starts (the catalog fetch
\* fails, the page lists no asset, or nothing is selected) leaves the file
\* system as it was: cdn_modules and the library directory are not created,
\* mkdirSync is not called, no task is started and no file is written.
C37_EarlyEndLeavesDiskAlone ==
    /\ EndedBeforeBatch =>
          /\ disk.now = disk.before
          /\ rootMkdir = "none"
          /\ submitted = 0
          /\ \A i \in Tasks : taskPc[i] = "none" /\ downloads[i].pc = "idle"
    /\ (catalogError # NoError \/ OnlyPages \/ NoneSelected) => disk.now = disk.before

\* the page of a library that was installed before lists files, the fetch of
\* the page failed, and the directories are as they were
C37_Witness ==
    /\ installPc = "caught"
    /\ catalogError # NoError
    /\ disk.before.dirs = {<<>>, <<"css">>}
    /\ disk.now = disk.before
    /\ Len(catalog) = 2

-----------------------------------------------------------------------------
(* part_001: the embed action, lines 472-612, run without subpaths, and     *)
(* the insert action run on the same library afterwards                     *)

MaxFiles == 2

\* `folders?.find(folder => folder.toLowerCase() === name.toLowerCase())`,
\* line 487: the first installed directory equal to the name but for case
actualName(folders, name) ==
    LET match == SelectSeq(folders, LAMBDA d : toLowerCase(d) = toLowerCase(name))
    IN IF match = <<>> THEN <<>> ELSE <<match[1]>>

\* the file filter of line 523
isScriptOrStyle(p) == endsWith1(p.file, "js") \/ endsWith1(p.file, "css")

\* findFilesRecursive(libraryBaseDir, cdnModulesDir, filter), lines 520-524:
\* the paths are relative to cdn_modules, so each starts with the directory of
\* the library (path.relative(baseDir, fullPath), libraryUtil.ts line 238)
allFiles(files, lib) ==
    SelectSeq([k \in 1..Len(files) |-> Path(<<lib>> \o files[k].dirs, files[k].file)],
              isScriptOrStyle)

\* line 533: fileRelPath.startsWith(actualName + '/')
filteredFiles(found, lib) ==
    SelectSeq(found, LAMBDA p : Len(p.dirs) >= 1 /\ p.dirs[1] = lib)

\* a sequence without its k-th element
without(seq, k) == [j \in 1..(Len(seq) - 1) |-> IF j < k THEN seq[j] ELSE seq[j + 1]]

RECURSIVE rankedFiles(_, _)
\* lines 571-576: the files by descending getFileScore, files of one score in
\* the order of the scan (Array.prototype.sort is stable)
rankedFiles(files, lib) ==
    IF files = <<>> THEN <<>>
    ELSE LET score(k) == getFileScore(files[k], <<lib>>)
             best == CHOOSE k \in 1..Len(files) :
                        /\ \A j \in 1..Len(files) : score(j) <= score(k)
                        /\ \A j \in 1..(k - 1) : score(j) < score(k)
         IN <<files[best]>> \o rankedFiles(without(files, best), lib)

\* the callback of getInstalledLibraries in the embed action, lines 476-611,
\* for subpaths = []: what it logs and the files of the tags it prints, in order
embed(E, folders, files, scanThrows) ==
    LET lib == actualName(folders, E.name)
        ends(level, text) == [E EXCEPT !.pc = "returned",
                                      !.log = Append(@, Report(level, text, NoLibrary))]
    IN IF lib = <<>> THEN ends("error", "base directory not found")
       ELSE IF scanThrows THEN ends("error", "Error processing files for library")
       ELSE IF allFiles(files, lib[1]) = <<>>
       THEN ends("warning", "No .js or .css files found recursively")
       ELSE IF filteredFiles(allFiles(files, lib[1]), lib[1]) = <<>>
       THEN ends("warning", "No relevant script/style files")
       ELSE [E EXCEPT !.pc = "returned",
                      !.ranked = rankedFiles(filteredFiles(allFiles(files, lib[1]), lib[1]),
                                             lib[1])]

\* the files an installed library can hold
TreeFiles ==
    {Path(<<>>, <<"a", "js">>), Path(<<"dist">>, <<"a", "js">>),
     Path(<<"src">>, <<"a", "min", "js">>), Path(<<"umd">>, <<"a", "min", "js">>),
     Path(<<>>, <<"all", "css">>), Path(<<>>, <<"readme", "md">>)}

\* the files of the library in the order of the scan: at most MaxFiles of them
Trees ==
    {t \in UNION {[1..n -> TreeFiles] : n \in 0..MaxFiles} :
        \A i, j \in 1..Len(t) : i # j => t[i] # t[j]}

\* `cdn embed <name>` is about to be run, and `cdn insert <name> <html> <location>`
\* after it, in a directory where cdn_modules holds at most the library
InitEmbed ==
    /\ mode = "embed"
    /\ concurrency \in 1..MaxConcurrency
    /\ LimiterInit
    /\ DownloadIdle
    /\ InstallIdle
    /\ ProgressIdle /\ CreateIdle /\ ScoreIdle /\ UninstallIdle
    /\ \E libraryName \in {"a", "A"}, location \in {"head", "Body"},
          dirs \in {<<>>, <<"a">>, <<"A">>}, files \in Trees, scanThrows \in BOOLEAN :
          /\ ins = [pc |-> "ready", libraryName |-> libraryName, filename |-> <<>>,
                    location |-> location, html |-> "ok", dirs |-> dirs, files |-> files,
                    scanThrows |-> scanThrows,
                    doc0 |-> Doc(<<>>, <<>>, TRUE), doc |-> Doc(<<>>, <<>>, TRUE),
                    pending |-> Doc(<<>>, <<>>, TRUE), tag |-> <<>>,
                    runs |-> 0, writes |-> 0, log |-> <<>>, exitCode |-> 0]
          /\ emb = [pc |-> "called", name |-> libraryName, ranked |-> <<>>, log |-> <<>>]

\* the embed action runs to its end on the library as it is on disk; the
\* insert action is run next
Embed ==
    /\ mode = "embed"
    /\ emb.pc = "called"
    /\ emb' = embed(emb, ins.dirs, ins.files, ins.scanThrows)
    /\ mode' = "insert"
    /\ UNCHANGED <<limiterVars, downloadVars, installVars, progressVars, ctor, scoring,
                   uninst, ins>>

NextEmbed == Embed \/ NextInsert

SpecEmbed == InitEmbed /\ [][NextEmbed]_vars

\* a path relative to cdn_modules, taken relative to its library directory
withinLibrary(p) == Path(Tail(p.dirs), p.file)

\* C40: the file `embed <name>` ranks first is the file `insert <name>`
\* selects when no file name is given: once both have run on the same library
\* and insert has selected a file, embed has printed tags and its first tag is
\* for that file.
C40_EmbedAndInsertAgree ==
    (emb.pc = "returned" /\ ins.runs >= 1 /\ ins.tag # <<>>) =>
        /\ emb.ranked # <<>>
        /\ withinLibrary(emb.ranked[1]) = ins.tag[1].file

====
